---- MODULE Spec2Model ----
(***************************************************************************)
(* FlashTrade risk gate (app/services/risk_manager.py) and backtest        *)
(* simulator (app/services/backtest/broker.py, engine.py).                 *)
(*                                                                         *)
(* One RiskManager object per process; every object persists its circuit   *)
(* breaker state under one Redis key.  Each method is one action.  Every   *)
(* method touches the store at most once (evaluate: one GET at its start;  *)
(* record_trade_result, kill_switch, reset_halt, reset_daily_pnl: one SET  *)
(* at their end), so a method is atomic with respect to the store.         *)
(*                                                                         *)
(* Time is in minutes.  Money is in cents.                                 *)
(***************************************************************************)
EXTENDS Integers, Sequences, FiniteSets, TLC

VARIABLES mem, store, now, redis_up, last,
          latched, phase, run, recOnly, nRecorded, armedAt, newLosses,
          sumSinceReset,
          bt, engine, candles, given, prev, strat, metrics,
          exec

(* The risk gate and its history; the backtest simulator and its history;  *)
(* the paper executor with its database is the variable exec               *)
gateVars == <<mem, store, now, redis_up, last,
              latched, phase, run, recOnly, nRecorded, armedAt, newLosses,
              sumSinceReset>>

simVars == <<bt, engine, candles, given, prev, strat, metrics>>

vars == <<mem, store, now, redis_up, last,
          latched, phase, run, recOnly, nRecorded, armedAt, newLosses,
          sumSinceReset,
          bt, engine, candles, given, prev, strat, metrics, exec>>

---------------------------------------------------------------------------
(* Settings (app/config.py)                                                *)
max_position_size_cents == 10000
max_daily_drawdown_pct == 5
max_per_trade_risk_pct == 2
circuit_breaker_consecutive_losses == 3
circuit_breaker_pause_minutes == 60

(* r.set(..., ex=86400): the record lives 86400 s = 1440 min               *)
RedisTtlMinutes == 1440

(* RiskManager.__init__: self._portfolio_value_cents = 1_000_000           *)
DefaultPortfolioValueCents == 1000000

(* Python's None for the Optional[datetime] field _paused_until            *)
None == -1

---------------------------------------------------------------------------
(* Bounds of the model                                                     *)
NumInstances == 2
MaxTicks == 2
TickMinutes == 30
MaxRecords == 4

Instances == 1..NumInstances

(* The instants at which calls are made: a few steps up to the end of a    *)
(* pause, and the instant at which a record written at time 0 expires.     *)
Times == {k * TickMinutes : k \in 0..MaxTicks} \cup {RedisTtlMinutes}

(* pnl_cents arguments of record_trade_result: the losses and the win of   *)
(* tests/test_risk_manager.py, a flat result, and a loss of 5% of the      *)
(* default portfolio.                                                      *)
Pnls == {-50000, -100, 0, 500}

(* value_cents arguments of set_portfolio_value                            *)
PortfolioValues == {DefaultPortfolioValueCents, 100000}

(* Orders handed to evaluate: make_order() of the tests, one without a     *)
(* stop, one over the size cap, one with a far stop, one at the size cap,  *)
(* one with a non-positive price.                                          *)
MkOrder(q, p, s) == [quantity_cents |-> q, price_cents |-> p, stop_loss_cents |-> s]
NoOrder == MkOrder(0, 0, 0)
Orders == { MkOrder(5000, 15000, 14250),
            MkOrder(5000, 15000, 0),
            MkOrder(20000, 15000, 14250),
            MkOrder(5000, 50000, 1),
            MkOrder(10000, 15000, 14250),
            MkOrder(5000, 0, 14250) }

(* Orders around the caps and with out-of-range fields.  With a portfolio  *)
(* of 100000 the per-trade cap is 2000: the first order risks 2001 exactly *)
(* (2900 * 690 / 1000), the second 2000, the third 2001; the fourth has    *)
(* its stop above twice its price; then a negative stop, a negative price  *)
(* and a negative quantity.                                                *)
RuleOrders == Orders \cup { MkOrder(2900, 1000, 310),
                            MkOrder(10000, 1000, 800),
                            MkOrder(10000, 10000, 7999),
                            MkOrder(100, 100, 500),
                            MkOrder(5000, 15000, -1),
                            MkOrder(5000, -1, 14250),
                            MkOrder(-100, 15000, 14250) }

---------------------------------------------------------------------------
(* RiskManager.__init__, before the _load_state call                       *)
InitFields == [halted |-> FALSE,
               halt_reason |-> "",
               consecutive_losses |-> 0,
               paused_until |-> None,
               daily_pnl_cents |-> 0,
               portfolio_value_cents |-> DefaultPortfolioValueCents]

(* datetime.isoformat / datetime.fromisoformat on an aware UTC datetime:   *)
(* the text keeps the full instant, JSON null stands for None.             *)
isoformat(t) == <<t>>
fromisoformat(txt) == txt[1]
JsonNull == <<>>

(* The dict built in _save_state, as json.dumps writes it                  *)
StateDict(self) == [halted |-> self.halted,
                    halt_reason |-> self.halt_reason,
                    consecutive_losses |-> self.consecutive_losses,
                    daily_pnl_cents |-> self.daily_pnl_cents,
                    paused_until |-> IF self.paused_until # None
                                     THEN isoformat(self.paused_until)
                                     ELSE JsonNull]

NoRecord == [present |-> FALSE, state |-> StateDict(InitFields), expires_at |-> 0]

(* r.get(REDIS_KEY_RISK_STATE): nothing once the TTL has run out           *)
RedisGet == IF store.present /\ now < store.expires_at THEN store ELSE NoRecord

(* _save_state: nothing without Redis, else SET with ex=86400              *)
save_state(self) ==
    IF ~redis_up THEN store
    ELSE [present |-> TRUE, state |-> StateDict(self),
          expires_at |-> now + RedisTtlMinutes]

(* _load_state: nothing without Redis or without a record; else the five   *)
(* fields are overwritten, paused_until only when the stored one is set    *)
load_state(self) ==
    IF ~redis_up THEN self
    ELSE LET raw == RedisGet IN
         IF ~raw.present THEN self
         ELSE [self EXCEPT
                 !.halted = raw.state.halted,
                 !.halt_reason = raw.state.halt_reason,
                 !.consecutive_losses = raw.state.consecutive_losses,
                 !.daily_pnl_cents = raw.state.daily_pnl_cents,
                 !.paused_until = IF raw.state.paused_until # JsonNull
                                  THEN fromisoformat(raw.state.paused_until)
                                  ELSE self.paused_until]

(* is_paused that never reports a pause                                    *)
is_paused_never(self) == [ret |-> FALSE, self |-> self]

(* The is_paused property: its value and the object after the read         *)
is_paused(self) ==
    IF self.paused_until = None THEN [ret |-> FALSE, self |-> self]
    ELSE IF now >= self.paused_until
         THEN [ret |-> FALSE,
               self |-> [self EXCEPT !.paused_until = None,
                                     !.consecutive_losses = 0]]
         ELSE [ret |-> TRUE, self |-> self]

---------------------------------------------------------------------------
(* Python float arithmetic (IEEE-754 binary64, round to nearest, ties to   *)
(* even).  A 53-bit significand does not fit a machine integer of the      *)
(* checker, so naturals are little-endian sequences of limbs in base 2^15; *)
(* a double x >= 0 is [m |-> significand, s |-> scale], of value m / 2^s.  *)
Base == 32768

LimbBits == 15

MantissaBits == 53

RECURSIVE Pow2(_)
Pow2(k) == IF k = 0 THEN 1 ELSE 2 * Pow2(k - 1)

RECURSIVE BitLen(_)
BitLen(n) == IF n = 0 THEN 0 ELSE 1 + BitLen(n \div 2)

RECURSIVE BigOf(_)
BigOf(n) == IF n = 0 THEN <<>> ELSE <<n % Base>> \o BigOf(n \div Base)

RECURSIVE BigTrim(_)
BigTrim(a) ==
    IF a = <<>> \/ a[Len(a)] # 0 THEN a ELSE BigTrim(SubSeq(a, 1, Len(a) - 1))

RECURSIVE BigToInt(_)
BigToInt(a) == IF a = <<>> THEN 0 ELSE Head(a) + Base * BigToInt(Tail(a))

RECURSIVE BigMulCarry(_, _, _)
BigMulCarry(a, m, carry) ==
    IF a = <<>> THEN BigOf(carry)
    ELSE LET v == Head(a) * m + carry
         IN  <<v % Base>> \o BigMulCarry(Tail(a), m, v \div Base)

BigMulSmall(a, m) == BigTrim(BigMulCarry(a, m, 0))

RECURSIVE BigDivRem(_, _)
BigDivRem(a, m) ==
    IF a = <<>> THEN [q |-> <<>>, r |-> 0]
    ELSE LET hi == BigDivRem(Tail(a), m)
             v  == hi.r * Base + Head(a)
         IN  [q |-> <<v \div m>> \o hi.q, r |-> v % m]

RECURSIVE BigInc(_)
BigInc(a) ==
    IF a = <<>> THEN <<1>>
    ELSE IF Head(a) + 1 < Base THEN <<Head(a) + 1>> \o Tail(a)
         ELSE <<0>> \o BigInc(Tail(a))

BigIsOdd(a) == a # <<>> /\ Head(a) % 2 = 1

BigBitLen(a) ==
    IF a = <<>> THEN 0 ELSE LimbBits * (Len(a) - 1) + BitLen(a[Len(a)])

BigShl(a, k) ==
    BigMulSmall([i \in 1..(k \div LimbBits) |-> 0] \o a, Pow2(k % LimbBits))

BigShr(a, k) ==
    LET drop == k \div LimbBits
    IN  IF drop >= Len(a) THEN <<>>
        ELSE BigTrim(BigDivRem(SubSeq(a, drop + 1, Len(a)),
                               Pow2(k % LimbBits)).q)

\* a / m rounded to the nearest integer, ties to even (m < 2^16).
BigRoundDiv(a, m) ==
    LET d  == BigDivRem(a, m)
        q  == BigTrim(d.q)
        up == 2 * d.r > m \/ (2 * d.r = m /\ BigIsOdd(q))
    IN  IF up THEN BigInc(q) ELSE q

RECURSIVE FloorLog2Ratio(_, _)
FloorLog2Ratio(a, b) ==
    IF a >= 2 * b THEN 1 + FloorLog2Ratio(a, 2 * b)
    ELSE IF a < b THEN FloorLog2Ratio(2 * a, b) - 1
    ELSE 0

\* a / b for integers a >= 0, b > 0 (Python int / int, correctly rounded).
\* Python raises ZeroDivisionError for b = 0: callers model that themselves.
float_truediv(a, b) ==
    IF a = 0 \/ b <= 0 THEN [m |-> <<>>, s |-> 0]
    ELSE LET s == (MantissaBits - 1) - FloorLog2Ratio(a, b)
         IN  [m |-> BigRoundDiv(BigShl(BigOf(a), s), b), s |-> s]

RECURSIVE BigAddCarry(_, _, _)
BigAddCarry(a, b, carry) ==
    IF a = <<>> /\ b = <<>> THEN BigOf(carry)
    ELSE LET x == IF a = <<>> THEN 0 ELSE Head(a)
             y == IF b = <<>> THEN 0 ELSE Head(b)
             v == x + y + carry
         IN  <<v % Base>> \o BigAddCarry(IF a = <<>> THEN a ELSE Tail(a),
                                         IF b = <<>> THEN b ELSE Tail(b),
                                         v \div Base)

RECURSIVE BigMul(_, _)
BigMul(a, b) ==
    IF b = <<>> THEN <<>>
    ELSE BigTrim(BigAddCarry(BigMulSmall(a, Head(b)), <<0>> \o BigMul(a, Tail(b)), 0))

\* bit k (from 0) of a, and whether any bit below k is set
BigBit(a, k) ==
    IF k \div LimbBits >= Len(a) THEN 0
    ELSE (a[k \div LimbBits + 1] \div Pow2(k % LimbBits)) % 2

BigLowBits(a, k) ==
    \E j \in 1..Len(a) :
        \/ j <= k \div LimbBits /\ a[j] # 0
        \/ j = k \div LimbBits + 1 /\ a[j] % Pow2(k % LimbBits) # 0

\* a / 2^t rounded to the nearest integer, ties to even (t >= 1)
BigRoundShr(a, t) ==
    LET q  == BigShr(a, t)
        up == BigBit(a, t - 1) = 1 /\ (BigLowBits(a, t - 1) \/ BigIsOdd(q))
    IN  IF up THEN BigInc(q) ELSE q

\* int(n * x) for an integer 0 <= n < 2^30 and a double x >= 0: the product
\* is rounded to 53 bits, then truncated.
int_of_product(n, x) ==
    IF n = 0 \/ x.m = <<>> THEN 0
    ELSE LET T == BigMul(x.m, BigOf(n))
             L == BigBitLen(T)
             t == IF L > MantissaBits THEN L - MantissaBits ELSE 0
             R == IF t = 0 THEN T ELSE BigRoundShr(T, t)
         IN  BigToInt(BigShr(R, x.s - t))

---------------------------------------------------------------------------
(* int(a / b) of a non-negative quotient of integers: the quotient of two  *)
(* integers below 2^31 is never rounded across an integer.                 *)
IntDiv(a, b) == a \div b
Abs(x) == IF x < 0 THEN -x ELSE x

(* int(a / b) for b > 0 and a of either sign: int() truncates towards zero *)
TruncDiv(a, b) == IF a >= 0 THEN a \div b ELSE -((-a) \div b)

(* evaluate, line 136 without its test: the division is always made        *)
risk_uses_division_unguarded(order) == TRUE

(* evaluate, line 136: `if order.price_cents > 0` guards the division      *)
risk_uses_division(order) == order.price_cents > 0

(* evaluate, line 137: the division raises ZeroDivisionError               *)
division_by_zero(order) == risk_uses_division(order) /\ order.price_cents = 0

(* evaluate, line 137: abs(price - stop) / price, a float                  *)
stop_distance_pct(order) ==
    float_truediv(Abs(order.price_cents - order.stop_loss_cents), order.price_cents)

(* evaluate, lines 136-140: int(quantity * stop_distance_pct), the float   *)
(* product truncated towards zero                                          *)
order_risk_cents(order) ==
    IF risk_uses_division(order)
    THEN IF order.quantity_cents >= 0
         THEN int_of_product(order.quantity_cents, stop_distance_pct(order))
         ELSE -int_of_product(-order.quantity_cents, stop_distance_pct(order))
    ELSE order.quantity_cents

(* The same value, computed once for every order of the model              *)
RiskOfOrder == [order \in RuleOrders |-> order_risk_cents(order)]
risk_per_trade_cents(order) ==
    IF order \in DOMAIN RiskOfOrder THEN RiskOfOrder[order]
    ELSE order_risk_cents(order)

(* evaluate, lines 141-143 and 154-156: int(portfolio * pct / 100); the    *)
(* product by 2.0 or 5.0 is exact and the quotient is not rounded across   *)
(* an integer.                                                             *)
max_risk_cents(self) == IntDiv(self.portfolio_value_cents * max_per_trade_risk_pct, 100)
max_daily_loss_cents(self) == IntDiv(self.portfolio_value_cents * max_daily_drawdown_pct, 100)

(* evaluate, lines 119, 126 and 144: the three rules on the order itself   *)
RulesOk(self, order) ==
    /\ order.stop_loss_cents > 0
    /\ order.quantity_cents <= max_position_size_cents
    /\ risk_per_trade_cents(order) <= max_risk_cents(self)

(* evaluate, line 157                                                      *)
DrawdownBreach(self) ==
    /\ Abs(self.daily_pnl_cents) >= max_daily_loss_cents(self)
    /\ self.daily_pnl_cents < 0

Verdict(approved, rule, halt_reason, minutes) ==
    [approved |-> approved, rule |-> rule, halt_reason |-> halt_reason, minutes |-> minutes]

KillReason == "Kill switch activated manually"
DrawdownReason == "Daily drawdown limit hit"

(* RiskManager.evaluate: the verdict and the object after the call.  The   *)
(* reason text is kept as the rule that wrote it, with the halt reason or  *)
(* the remaining minutes it embeds; `raised` tells that the call left by   *)
(* an exception instead of returning a verdict.                            *)
evaluate(self0, order) ==
    LET self1 == load_state(self0)
        p == is_paused(self1)
        self2 == p.self
    IN  IF self1.halted
        THEN [verdict |-> Verdict(FALSE, "Trading halted", self1.halt_reason, 0),
              self |-> self1, raised |-> FALSE]
        ELSE IF p.ret
        THEN [verdict |-> Verdict(FALSE, "Circuit breaker active", "",
                                  self2.paused_until - now),
              self |-> self2, raised |-> FALSE]
        ELSE IF order.stop_loss_cents <= 0
        THEN [verdict |-> Verdict(FALSE, "stop-loss is mandatory", "", 0),
              self |-> self2, raised |-> FALSE]
        ELSE IF order.quantity_cents > max_position_size_cents
        THEN [verdict |-> Verdict(FALSE, "Position size exceeds max", "", 0),
              self |-> self2, raised |-> FALSE]
        ELSE IF division_by_zero(order)
        THEN [verdict |-> Verdict(FALSE, "", "", 0), self |-> self2, raised |-> TRUE]
        ELSE IF risk_per_trade_cents(order) > max_risk_cents(self2)
        THEN [verdict |-> Verdict(FALSE, "Per-trade risk exceeds max", "", 0),
              self |-> self2, raised |-> FALSE]
        ELSE IF DrawdownBreach(self2)
        THEN [verdict |-> Verdict(FALSE, DrawdownReason, DrawdownReason, 0),
              self |-> [self2 EXCEPT !.halted = TRUE, !.halt_reason = DrawdownReason],
              raised |-> FALSE]
        ELSE [verdict |-> Verdict(TRUE, "All risk checks passed", "", 0),
              self |-> self2, raised |-> FALSE]

(* A breaker that trips at the threshold only, not beyond it               *)
breaker_trips_once(consecutive_losses) ==
    consecutive_losses = circuit_breaker_consecutive_losses

(* record_trade_result, line 186                                           *)
breaker_trips(consecutive_losses) ==
    consecutive_losses >= circuit_breaker_consecutive_losses

(* record_trade_result whose else branch only resets on pnl > 0            *)
record_trade_result_strict_win(self, pnl_cents) ==
    LET s1 == [self EXCEPT !.daily_pnl_cents = @ + pnl_cents] IN
    IF pnl_cents < 0
    THEN LET s2 == [s1 EXCEPT !.consecutive_losses = @ + 1] IN
         IF breaker_trips(s2.consecutive_losses)
         THEN [s2 EXCEPT !.paused_until = now + circuit_breaker_pause_minutes]
         ELSE s2
    ELSE IF pnl_cents > 0 THEN [s1 EXCEPT !.consecutive_losses = 0] ELSE s1

(* RiskManager.record_trade_result, before its _save_state                 *)
record_trade_result(self, pnl_cents) ==
    LET s1 == [self EXCEPT !.daily_pnl_cents = @ + pnl_cents] IN
    IF pnl_cents < 0
    THEN LET s2 == [s1 EXCEPT !.consecutive_losses = @ + 1] IN
         IF breaker_trips(s2.consecutive_losses)
         THEN [s2 EXCEPT !.paused_until = now + circuit_breaker_pause_minutes]
         ELSE s2
    ELSE [s1 EXCEPT !.consecutive_losses = 0]

(* RiskManager.kill_switch, reset_halt, reset_daily_pnl, before saving     *)
kill_switch(self) == [self EXCEPT !.halted = TRUE, !.halt_reason = KillReason]

(* reset_halt that clears the reason and the counter but not the flag      *)
reset_halt_keeps_flag(self) == [self EXCEPT !.halt_reason = "",
                                            !.consecutive_losses = 0]

reset_halt(self) == [self EXCEPT !.halted = FALSE, !.halt_reason = "",
                                 !.consecutive_losses = 0]
reset_daily_pnl(self) == [self EXCEPT !.daily_pnl_cents = 0]
set_portfolio_value(self, value_cents) ==
    [self EXCEPT !.portfolio_value_cents = value_cents]

---------------------------------------------------------------------------
(* Backtest broker (app/services/backtest/broker.py)                       *)

Min(a, b) == IF a <= b THEN a ELSE b
Max(a, b) == IF a >= b THEN a ELSE b

Double(m, s) == [m |-> m, s |-> s]

(* FEE_RATES: the doubles nearest to 0.004 (crypto) and 0.001 (the others) *)
FeeKeys == {"crypto", "crypto_maker", "asx", "us"}
FEE_RATES ==
    [k \in FeeKeys |->
        IF k = "crypto" THEN Double(<<27263, 27000, 25165, 32>>, 58)
                        ELSE Double(<<27263, 27000, 25165, 32>>, 60)]

(* 1 + fee_rate and 1 - fee_rate, as Python rounds them                    *)
one_plus_fee ==
    [k \in FeeKeys |->
        IF k = "crypto" THEN Double(<<30933, 19922, 8388, 64>>, 51)
                        ELSE Double(<<24117, 4980, 2097, 64>>, 51)]
one_minus_fee ==
    [k \in FeeKeys |->
        IF k = "crypto" THEN Double(<<1835, 12845, 24379, 63>>, 51)
                        ELSE Double(<<1835, 12845, 24379, 255>>, 53)]

(* BacktestBroker._get_fee_rate: the key of FEE_RATES that applies; a      *)
(* market without an entry gets 0.001, the rate of "asx".                  *)
get_fee_rate(fee_tier, market) ==
    IF fee_tier = "maker" /\ market = "crypto" THEN "crypto_maker"
    ELSE IF market \in {"crypto", "asx", "us"} THEN market ELSE "asx"

(* One bar of OHLCV data, as process_bar receives it                       *)
Bar(high, low, close) == [high |-> high, low |-> low, close |-> close]

(* The bars handed to process_bar: a quiet bar, a bar that falls through   *)
(* a stop 500 below the quiet close, a bar that rises, a collapse to 0.    *)
BrokerBars == { Bar(10100, 9900, 10000),
                Bar(10000, 9000, 9500),
                Bar(11000, 10400, 10900),
                Bar(100, 0, 0) }

(* The candles of an engine run: the flat candle of the warm-up, a rise    *)
(* and a fall.                                                             *)
FlatCandle == Bar(10000, 10000, 10000)
EngineCandles == { Bar(10600, 10000, 10500), Bar(10000, 9000, 9400) }

(* Signal (strategy/base.py), with indicator_data["quantity_cents"]        *)
Signal(action, price_cents, stop_loss_cents, strategy_name, quantity_cents) ==
    [action |-> action, price_cents |-> price_cents,
     stop_loss_cents |-> stop_loss_cents, strategy_name |-> strategy_name,
     quantity_cents |-> quantity_cents]
NoSignal == Signal("none", 0, 0, "", 0)

(* A buy signal whose stop is not clamped                                  *)
buy_signal_unclamped(strategy_name, current_close, raw_stop, quantity_cents) ==
    Signal("buy", current_close, raw_stop, strategy_name, quantity_cents)

(* The buy signal the strategies build: price_cents is the close of the    *)
(* last bar and stop_loss_cents is max(1, stop_loss), where stop_loss is   *)
(* int(close - multiplier * ATR) (momentum.py l.63-72, meanrev.py          *)
(* l.69-79, turtle.py l.136-153 and l.173-181).                            *)
buy_signal(strategy_name, current_close, raw_stop, quantity_cents) ==
    Signal("buy", current_close, Max(1, raw_stop), strategy_name, quantity_cents)

(* The sell signal the strategies build: price and stop are the close      *)
sell_signal(strategy_name, current_close) ==
    Signal("sell", current_close, current_close, strategy_name, 0)

(* Fills and fees, computed once for the prices and quantities of the      *)
(* model: int(price * (1 + fee_rate)), int(price * (1 - fee_rate)) and     *)
(* int(quantity * fee_rate).                                               *)
ModelCloses == {b.close : b \in BrokerBars \cup EngineCandles \cup {FlatCandle}}
ModelPrices == ModelCloses \cup {c - 500 : c \in ModelCloses} \cup {0, 1}
ModelFeeKeys == {"crypto", "us"}
BuyFillOf  == [k \in ModelFeeKeys |->
                 [p \in ModelPrices |-> int_of_product(p, one_plus_fee[k])]]
SellFillOf == [k \in ModelFeeKeys |->
                 [p \in ModelPrices |-> int_of_product(p, one_minus_fee[k])]]

buy_fill_price(price_cents, k) ==
    IF k \in ModelFeeKeys /\ price_cents \in ModelPrices
    THEN BuyFillOf[k][price_cents]
    ELSE int_of_product(price_cents, one_plus_fee[k])

sell_fill_price(price_cents, k) ==
    IF k \in ModelFeeKeys /\ price_cents \in ModelPrices
    THEN SellFillOf[k][price_cents]
    ELSE int_of_product(price_cents, one_minus_fee[k])

fee_cents(quantity_cents, k) == int_of_product(quantity_cents, FEE_RATES[k])

(* _Position; `held` tells the object from None                            *)
NoPosition == [held |-> FALSE, entry_price_cents |-> 0, quantity_cents |-> 0,
               stop_loss_cents |-> 0, strategy |-> "", entry_bar_index |-> 0,
               pyramid_count |-> 0]

(* BacktestBroker.__init__                                                 *)
BacktestBroker(starting_cash_cents, cooldown_bars, fee_tier) ==
    [cash_cents |-> starting_cash_cents,
     starting_cash_cents |-> starting_cash_cents,
     cooldown_bars |-> cooldown_bars,
     fee_tier |-> fee_tier,
     last_close_bar_index |-> -999,
     position |-> NoPosition,
     closed_trades |-> <<>>,
     equity_curve |-> <<>>,
     total_fees_cents |-> 0]

(* what a close would credit if it returned the profit alone               *)
close_proceeds_pnl_only(quantity_cents, pnl_cents) == pnl_cents

(* _close_position, l.269: self.cash_cents += pos.quantity_cents + pnl     *)
close_proceeds(quantity_cents, pnl_cents) == quantity_cents + pnl_cents

(* BacktestBroker._close_position; the bar index stands for bar_time in    *)
(* exit_time                                                               *)
close_position(b, price_cents, bar_index, reason, market) ==
    IF ~b.position.held THEN b
    ELSE LET pos == b.position
             k == get_fee_rate(b.fee_tier, market)
             fill_price == sell_fill_price(price_cents, k)
             pnl_cents ==
                 IF pos.entry_price_cents > 0
                 THEN TruncDiv(pos.quantity_cents * (fill_price - pos.entry_price_cents),
                               pos.entry_price_cents)
                 ELSE 0
         IN  [b EXCEPT
                !.last_close_bar_index = bar_index,
                !.cash_cents = @ + close_proceeds(pos.quantity_cents, pnl_cents),
                !.total_fees_cents = @ + fee_cents(pos.quantity_cents, k),
                !.closed_trades =
                    Append(@, [entry_price_cents |-> pos.entry_price_cents,
                               exit_price_cents |-> fill_price,
                               quantity_cents |-> pos.quantity_cents,
                               pnl_cents |-> pnl_cents,
                               exit_time |-> bar_index,
                               exit_reason |-> reason,
                               strategy |-> pos.strategy,
                               holding_bars |-> bar_index - pos.entry_bar_index]),
                !.position = NoPosition]

(* a cooldown check that lets the bar of the close itself through          *)
cooldown_active_after_close_bar(b, bar_index) ==
    /\ b.cooldown_bars > 0
    /\ bar_index - b.last_close_bar_index < b.cooldown_bars
    /\ bar_index # b.last_close_bar_index

(* _open_position, l.151-158: the cooldown check                           *)
cooldown_active(b, bar_index) ==
    /\ b.cooldown_bars > 0
    /\ bar_index - b.last_close_bar_index < b.cooldown_bars

(* _open_position without its min(quantity, cash)                          *)
open_position_unfunded(b, signal, bar_index, market) ==
    IF cooldown_active(b, bar_index)
    THEN b
    ELSE LET k == get_fee_rate(b.fee_tier, market)
             quantity_cents == Min(signal.quantity_cents, max_position_size_cents)
         IN  IF quantity_cents < 100 THEN b
             ELSE [b EXCEPT
                    !.cash_cents = @ - quantity_cents,
                    !.total_fees_cents = @ + fee_cents(quantity_cents, k),
                    !.position =
                        [held |-> TRUE,
                         entry_price_cents |-> buy_fill_price(signal.price_cents, k),
                         quantity_cents |-> quantity_cents,
                         stop_loss_cents |-> signal.stop_loss_cents,
                         strategy |-> signal.strategy_name,
                         entry_bar_index |-> bar_index,
                         pyramid_count |-> 1]]

(* BacktestBroker._open_position                                           *)
open_position(b, signal, bar_index, market) ==
    IF cooldown_active(b, bar_index)
    THEN b
    ELSE LET k == get_fee_rate(b.fee_tier, market)
             quantity_cents == Min(Min(signal.quantity_cents, max_position_size_cents),
                                   b.cash_cents)
         IN  IF quantity_cents < 100 THEN b
             ELSE [b EXCEPT
                    !.cash_cents = @ - quantity_cents,
                    !.total_fees_cents = @ + fee_cents(quantity_cents, k),
                    !.position =
                        [held |-> TRUE,
                         entry_price_cents |-> buy_fill_price(signal.price_cents, k),
                         quantity_cents |-> quantity_cents,
                         stop_loss_cents |-> signal.stop_loss_cents,
                         strategy |-> signal.strategy_name,
                         entry_bar_index |-> bar_index,
                         pyramid_count |-> 1]]

(* the mean of the two prices, whatever the quantities                     *)
average_entry_unweighted(entry_price_cents, old_total, fill_price, add_quantity) ==
    IntDiv(entry_price_cents + fill_price, 2)

(* _add_to_position, l.215-219: the weighted-average entry price           *)
average_entry(entry_price_cents, old_total, fill_price, add_quantity) ==
    IntDiv(entry_price_cents * old_total + fill_price * add_quantity,
           old_total + add_quantity)

(* a stop that is only ever raised                                         *)
pyramid_stop_tighten_only(stop_loss_cents, signal_stop_cents) ==
    IF signal_stop_cents > stop_loss_cents THEN signal_stop_cents ELSE stop_loss_cents

(* _add_to_position, l.224-225: the stop of the signal replaces the stop   *)
(* of the position when it is positive                                     *)
pyramid_stop(stop_loss_cents, signal_stop_cents) ==
    IF signal_stop_cents > 0 THEN signal_stop_cents ELSE stop_loss_cents

(* BacktestBroker._add_to_position                                         *)
add_to_position(b, signal, bar_index, market) ==
    IF ~b.position.held THEN b
    ELSE LET pos == b.position
             k == get_fee_rate(b.fee_tier, market)
             fill_price == buy_fill_price(signal.price_cents, k)
             add_quantity == Min(Min(signal.quantity_cents, max_position_size_cents),
                                 b.cash_cents)
             old_total == pos.quantity_cents
             new_total == old_total + add_quantity
         IN  IF add_quantity < 100 THEN b
             ELSE [b EXCEPT
                    !.position =
                        [pos EXCEPT
                           !.entry_price_cents =
                               average_entry(pos.entry_price_cents, old_total,
                                             fill_price, add_quantity),
                           !.quantity_cents = new_total,
                           !.pyramid_count = @ + 1,
                           !.stop_loss_cents = pyramid_stop(@, signal.stop_loss_cents)],
                    !.cash_cents = @ - add_quantity,
                    !.total_fees_cents = @ + fee_cents(add_quantity, k)]

(* BacktestBroker.get_equity_cents and _record_equity                      *)
get_equity_cents(b, mark_price_cents) ==
    IF ~b.position.held THEN b.cash_cents
    ELSE IF b.position.entry_price_cents > 0
         THEN b.cash_cents + IntDiv(b.position.quantity_cents * mark_price_cents,
                                    b.position.entry_price_cents)
         ELSE b.cash_cents + b.position.quantity_cents

record_equity(b, bar_close_cents) ==
    [b EXCEPT !.equity_curve = Append(@, get_equity_cents(b, bar_close_cents))]

(* process_bar step 1: the stop-loss check against the low of the bar      *)
check_stop_loss(b, bar, bar_index, market) ==
    IF b.position.held /\ bar.low <= b.position.stop_loss_cents
    THEN close_position(b, b.position.stop_loss_cents, bar_index, "stop_loss", market)
    ELSE b

(* process_bar steps 2 and 3: the signal                                   *)
handle_signal(b, signal, bar_index, market) ==
    IF signal.action = "sell" /\ b.position.held
    THEN close_position(b, signal.price_cents, bar_index, "signal", market)
    ELSE IF signal.action = "buy" /\ ~b.position.held
    THEN open_position(b, signal, bar_index, market)
    ELSE IF signal.action = "buy" /\ b.position.held
    THEN add_to_position(b, signal, bar_index, market)
    ELSE b

(* process_bar that looks at the signal before the stop                    *)
process_bar_signal_first(b, signal, bar, bar_index, market) ==
    record_equity(check_stop_loss(handle_signal(b, signal, bar_index, market),
                                  bar, bar_index, market),
                  bar.close)

(* BacktestBroker.process_bar                                              *)
process_bar(b, signal, bar, bar_index, market) ==
    record_equity(handle_signal(check_stop_loss(b, bar, bar_index, market),
                                signal, bar_index, market),
                  bar.close)

(* a force_close that leaves the position open                             *)
force_close_skipped(b, price_cents, bar_index, market) == b

(* BacktestBroker.force_close                                              *)
force_close(b, price_cents, bar_index, market) ==
    IF b.position.held
    THEN close_position(b, price_cents, bar_index, "backtest_end", market)
    ELSE b

(* BacktestBroker.__init__: starting_cash_cents = 1_000_000                *)
DefaultStartingCashCents == 1000000

(* Two backtest runs side by side; the broker claims use the first         *)
Runs == {"a", "b"}

(* What the broker of a run was last called with                           *)
BrokerCall(op, signal, bar, bar_index) ==
    [op |-> op, signal |-> signal, bar |-> bar, bar_index |-> bar_index]
NoCall == BrokerCall("none", NoSignal, Bar(0, 0, 0), 0)

(* A signal as a strategy returns it, with its strength in hundredths      *)
Generated(signal, strength) == [signal |-> signal, strength |-> strength]

(* compute_metrics (backtest/metrics.py): the ending figures of the result *)
(* max_dd_pct = 0.0, max_dd_cents = 0 (metrics.py lines 126-127).  A       *)
(* percentage is kept as the pair it is the quotient of: drop / peak * 100 *)
NoDrawdown == [drop |-> 0, peak |-> 1, cents |-> 0]

(* _compute_max_drawdown, the loop from point k on.  `dd_pct > max_dd_pct` *)
(* compares drop / peak * 100 of two points; on amounts in cents that fit  *)
(* a backtest two different quotients never round to the same float, so   *)
(* the comparison is the one of the exact quotients.                      *)
RECURSIVE drawdown_scan(_, _, _, _)
drawdown_scan(equity_curve, k, peak, best) ==
    IF k > Len(equity_curve) THEN best
    ELSE LET equity == equity_curve[k]
             peak1 == IF equity > peak THEN equity ELSE peak
             dd_cents == peak1 - equity
         IN  IF peak1 > 0 /\ dd_cents * best.peak > best.drop * peak1
             THEN drawdown_scan(equity_curve, k + 1, peak1,
                                [drop |-> dd_cents, peak |-> peak1,
                                 cents |-> dd_cents])
             ELSE drawdown_scan(equity_curve, k + 1, peak1, best)

(* _compute_max_drawdown                                                   *)
compute_max_drawdown(equity_curve) ==
    IF equity_curve = <<>> THEN NoDrawdown
    ELSE drawdown_scan(equity_curve, 1, equity_curve[1], NoDrawdown)

NoMetrics == [computed |-> FALSE, ending_cash_cents |-> 0,
              ending_equity_cents |-> 0, total_trades |-> 0,
              max_drawdown_pct |-> [drop |-> 0, peak |-> 1],
              max_drawdown_cents |-> 0]
compute_metrics(b) ==
    [computed |-> TRUE,
     ending_cash_cents |-> b.cash_cents,
     ending_equity_cents |-> b.cash_cents,
     total_trades |-> Len(b.closed_trades),
     max_drawdown_pct |-> [drop |-> compute_max_drawdown(b.equity_curve).drop,
                           peak |-> compute_max_drawdown(b.equity_curve).peak],
     max_drawdown_cents |-> compute_max_drawdown(b.equity_curve).cents]


---------------------------------------------------------------------------
(* Indicators (app/services/strategy/indicators.py) on a window of bars,   *)
(* taken at the last bar of the window.  An indicator value is a record    *)
(* with a `defined` flag: NaN is the undefined value.                      *)

Undefined == [defined |-> FALSE, value |-> 0]
Defined(v) == [defined |-> TRUE, value |-> v]

SetMax(S) == CHOOSE x \in S : \A y \in S : y <= x
SetMin(S) == CHOOSE x \in S : \A y \in S : x <= y

(* rolling(window=period).max() and .min() over the bars from..to          *)
MaxOver(window, from, to) == SetMax({window[k].high : k \in from..to})
MinOver(window, from, to) == SetMin({window[k].low : k \in from..to})

(* donchian_channel(high, low, period) without the shift: the last bar is  *)
(* part of its own channel                                                 *)
donchian_upper_unshifted(window, period) ==
    LET n == Len(window) IN
    IF period < 1 \/ n < period + 1 THEN Undefined
    ELSE Defined(MaxOver(window, n - period + 1, n))

(* donchian_channel(high.shift(1), low.shift(1), period): the highest high *)
(* and the lowest low of the `period` bars before the last one             *)
donchian_upper_shifted(window, period) ==
    LET n == Len(window) IN
    IF period < 1 \/ n < period + 1 THEN Undefined
    ELSE Defined(MaxOver(window, n - period, n - 1))

donchian_lower_shifted(window, period) ==
    LET n == Len(window) IN
    IF period < 1 \/ n < period + 1 THEN Undefined
    ELSE Defined(MinOver(window, n - period, n - 1))

(* atr(), l.87-91: the true range of bar j                                 *)
true_range(window, j) ==
    LET tr1 == window[j].high - window[j].low IN
    IF j = 1 THEN tr1
    ELSE Max(tr1, Max(Abs(window[j].high - window[j - 1].close),
                      Abs(window[j].low - window[j - 1].close)))

BigAdd(a, b) == BigTrim(BigAddCarry(a, b, 0))

RECURSIVE BigLeqAt(_, _, _)
BigLeqAt(a, b, k) ==
    IF k = 0 THEN TRUE
    ELSE IF a[k] # b[k] THEN a[k] < b[k]
    ELSE BigLeqAt(a, b, k - 1)

BigLeq(a, b) ==
    LET x == BigTrim(a)
        y == BigTrim(b)
    IN  IF Len(x) # Len(y) THEN Len(x) < Len(y) ELSE BigLeqAt(x, y, Len(x))

(* the greatest q in lo..hi with q * d <= x (lo * d <= x is given)         *)
RECURSIVE BigQuotIn(_, _, _, _)
BigQuotIn(x, d, lo, hi) ==
    IF lo >= hi THEN lo
    ELSE LET mid == (lo + hi + 1) \div 2
         IN  IF BigLeq(BigMulSmall(d, mid), x)
             THEN BigQuotIn(x, d, mid, hi)
             ELSE BigQuotIn(x, d, lo, mid - 1)

(* true_range.ewm(alpha=1/period).mean() at the last bar, as the fraction  *)
(* num / den of two naturals: with w = (period - 1) / period it is         *)
(* sum(w^(n-j) * TR_j) / sum(w^(n-j)), both sums scaled by period^(n-1).   *)
(* EwmStep takes the sums over the bars before j to the sums up to j.      *)
EwmStart == [num |-> <<>>, den |-> <<>>, pw |-> <<1>>]

EwmStep(window, period, sums, j) ==
    [num |-> BigAdd(BigMulSmall(sums.num, period - 1),
                    BigMulSmall(sums.pw, true_range(window, j))),
     den |-> BigAdd(BigMulSmall(sums.den, period - 1), sums.pw),
     pw  |-> BigMulSmall(sums.pw, period)]

RECURSIVE EwmSums(_, _, _, _, _)
EwmSums(window, period, sums, from, to) ==
    IF from > to THEN sums
    ELSE IF from = to THEN EwmStep(window, period, sums, from)
    ELSE LET mid == (from + to) \div 2
             half == EwmSums(window, period, sums, from, mid)
         IN  IF half.pw = <<>> THEN half
             ELSE EwmSums(window, period, half, mid + 1, to)

MaxTrueRange(window, n) == SetMax({true_range(window, j) : j \in 1..n})

(* atr(high, low, close, period) at the last bar: undefined before         *)
(* min_periods = period bars; `top` bounds the value from above            *)
atr_defined(window, period) == period >= 1 /\ Len(window) >= period

atr(window, period) ==
    IF ~atr_defined(window, period) THEN Undefined
    ELSE LET sums == EwmSums(window, period, EwmStart, 1, Len(window))
         IN  Defined([num |-> sums.num, den |-> sums.den,
                      top |-> MaxTrueRange(window, Len(window))])

(* int(halves / 2 * N) for N = num / den: multipliers are given in halves  *)
(* (0.5 is 1, 2.0 is 4, 2.5 is 5)                                          *)
int_of_multiple(halves, n) ==
    BigQuotIn(BigMulSmall(n.num, halves), BigMulSmall(n.den, 2), 0, halves * n.top)

(* int(close - halves / 2 * N): truncation toward zero                     *)
int_of_distance_below(close, halves, n) ==
    LET fl == int_of_multiple(halves, n)
        exact == BigMulSmall(n.den, 2 * fl) = BigMulSmall(n.num, halves)
    IN  IF exact \/ fl >= close THEN close - fl ELSE close - fl - 1

---------------------------------------------------------------------------
(* Turtle strategies (app/services/strategy/turtle.py)                     *)

(* _TurtleBase.__init__: the parameters, the multipliers in halves         *)
TurtleParams(name, entry_period, exit_period, long_entry_period, atr_period, stop_halves, step_halves, max_pyramids) ==
    [name |-> name, entry_period |-> entry_period, exit_period |-> exit_period,
     long_entry_period |-> long_entry_period, atr_period |-> atr_period,
     stop_halves |-> stop_halves, step_halves |-> step_halves,
     max_pyramids |-> max_pyramids]

(* TurtleCryptoStrategy and TurtleStocksStrategy defaults                  *)
TurtleCrypto == TurtleParams("turtle_crypto", 15, 8, 40, 20, 5, 1, 3)
TurtleStocks == TurtleParams("turtle_stocks", 20, 10, 55, 20, 4, 1, 4)

(* The pyramid state of an instance                                        *)
NewTurtle == [pyramid_count |-> 0, last_entry_price |-> 0]

(* What a generate_signals call gives: the list returned, the instance     *)
(* afterwards, and whether the call raised instead of returning            *)
StrategyOutcome(signals, self, raised) ==
    [signals |-> signals, self |-> self, raised |-> raised]

(* generate_signals, l.68: the warm-up length                              *)
turtle_min_bars(p) ==
    Max(Max(p.entry_period, p.long_entry_period), p.atr_period) + 5

(* a NaN guard that leaves the exit channel out                            *)
turtle_indicators_defined_but_exit(entry_upper, long_upper, exit_lower, n) ==
    entry_upper.defined /\ long_upper.defined /\ n.defined

(* generate_signals, l.94-95: the NaN guard                                *)
turtle_indicators_defined(entry_upper, long_upper, exit_lower, n) ==
    entry_upper.defined /\ long_upper.defined /\ exit_lower.defined /\ n.defined

(* an exit that keeps the pyramid state                                    *)
turtle_after_exit_kept(self) == self

(* generate_signals, l.122-124: the pyramid state after an exit signal     *)
turtle_after_exit(self) ==
    [self EXCEPT !.pyramid_count = 0, !.last_entry_price = 0]

(* a new entry on every breakout                                           *)
turtle_entry_allowed_always(self) == TRUE

(* generate_signals, l.134: a breakout is a new entry only when no entry   *)
(* is counted                                                              *)
turtle_entry_allowed(self) == self.pyramid_count = 0

(* an entry strength that ignores the long channel                         *)
turtle_entry_strength_short(system2_breakout) == 70

(* generate_signals, l.137: strength = 0.9 if system2_breakout else 0.7    *)
turtle_entry_strength(system2_breakout) == IF system2_breakout THEN 90 ELSE 70

(* pyramid-adds without the cap                                            *)
turtle_add_allowed_uncapped(pyramid_count, max_pyramids) == pyramid_count > 0

(* generate_signals, l.170                                                 *)
turtle_add_allowed(pyramid_count, max_pyramids) ==
    pyramid_count > 0 /\ pyramid_count < max_pyramids

(* generate_signals, l.68-100 and l.136, l.171: what a call reads off the  *)
(* window, whatever the pyramid state: whether the window is shorter than  *)
(* the warm-up, the last two closes, the shifted channels and the ATR (N)  *)
(* at the last bar, int(pyramid_atr_step * N) and                          *)
(* int(close - stop_multiplier * N)                                        *)
turtle_indicators(p, df) ==
    IF Len(df) < turtle_min_bars(p)
    THEN [short |-> TRUE, current_close |-> 0, prev_close |-> 0,
          entry_upper |-> Undefined, long_upper |-> Undefined,
          exit_lower |-> Undefined, n |-> Undefined, step |-> 0, stop |-> 0]
    ELSE
    LET n == atr(df, p.atr_period)
        current_close == df[Len(df)].close
    IN  [short |-> FALSE,
         current_close |-> current_close,
         prev_close |-> df[Len(df) - 1].close,
         entry_upper |-> donchian_upper_shifted(df, p.entry_period),
         long_upper |-> donchian_upper_shifted(df, p.long_entry_period),
         exit_lower |-> donchian_lower_shifted(df, p.exit_period),
         n |-> n,
         step |-> IF n.defined THEN int_of_multiple(p.step_halves, n.value) ELSE 0,
         stop |-> IF n.defined
                  THEN int_of_distance_below(current_close, p.stop_halves, n.value)
                  ELSE 0]

(* generate_signals, l.94-199: the signals and the pyramid state after the *)
(* call, from what was read off the window.  int() of a NaN raises.        *)
turtle_decide(self, p, ind) ==
    IF ind.short THEN StrategyOutcome(<<>>, self, FALSE)
    ELSE IF ~turtle_indicators_defined(ind.entry_upper, ind.long_upper,
                                       ind.exit_lower, ind.n)
    THEN StrategyOutcome(<<>>, self, FALSE)
    ELSE IF ~(ind.entry_upper.defined /\ ind.long_upper.defined
              /\ ind.exit_lower.defined /\ ind.n.defined)
    THEN StrategyOutcome(<<>>, self, TRUE)
    ELSE IF ind.current_close <= ind.exit_lower.value
    THEN StrategyOutcome(<<Generated(sell_signal(p.name, ind.current_close), 80)>>,
                         turtle_after_exit(self), FALSE)
    ELSE
    LET system1_breakout == /\ ind.current_close > ind.entry_upper.value
                            /\ ind.prev_close <= ind.entry_upper.value
        system2_breakout == /\ ind.current_close > ind.long_upper.value
                            /\ ind.prev_close <= ind.long_upper.value
        entry == (system1_breakout \/ system2_breakout) /\ turtle_entry_allowed(self)
        count1 == IF entry THEN 1 ELSE self.pyramid_count
        last1 == IF entry THEN ind.current_close ELSE self.last_entry_price
        add == /\ turtle_add_allowed(count1, p.max_pyramids)
               /\ ind.current_close >= last1 + ind.step
        buy == buy_signal(p.name, ind.current_close, ind.stop, 100)
    IN  StrategyOutcome(
            (IF entry
             THEN <<Generated(buy, turtle_entry_strength(system2_breakout))>>
             ELSE <<>>)
            \o (IF add THEN <<Generated(buy, 50)>> ELSE <<>>),
            [pyramid_count |-> IF add THEN count1 + 1 ELSE count1,
             last_entry_price |-> IF add THEN ind.current_close ELSE last1],
            FALSE)

(* _TurtleBase.generate_signals on an instance with pyramid state self     *)
turtle_generate_signals(self, p, df) ==
    turtle_decide(self, p, turtle_indicators(p, df))

(* The symbols one strategy instance is asked about                        *)
Symbols == {"A", "B"}

(* A generate_signals call: the symbol and the length of the window, which *)
(* is the first `len` bars of the symbol's frame                           *)
StrategyCall(symbol, len) == [symbol |-> symbol, len |-> len]

(* No strategy has been evaluated yet.  `generated` is what the strategy   *)
(* of an engine run returned on the bar; the other fields describe one     *)
(* strategy instance called directly: its parameters, its pyramid state    *)
(* (`self`, and `before` the last call), the frames of the symbols, the    *)
(* last call and its outcome, and as history the number of calls, the      *)
(* symbol of the entry that opened the pyramid ("" when none is open), now *)
(* and before the last call, the close that entry was signalled at, and    *)
(* the buy signals emitted since the last exit signal.                     *)
IdleStrat ==
    [generated |-> [r \in Runs |-> <<>>],
     params |-> TurtleCrypto,
     self |-> NewTurtle,
     before |-> NewTurtle,
     frames |-> [s \in Symbols |-> <<>>],
     call |-> StrategyCall("", 0),
     out |-> StrategyOutcome(<<>>, NewTurtle, FALSE),
     calls |-> 0,
     entry_symbol |-> "",
     entry_symbol_before |-> "",
     entry_price |-> 0,
     buys_since_exit |-> 0]

---------------------------------------------------------------------------
(* Paper executor (app/services/execution/paper_executor.py).  The         *)
(* database holds at most one positions row per symbol and the trades      *)
(* table; a commit is one step.                                            *)
ExecSymbols == {"A"}

(* Order (app/models/trade.py) as the executor reads it                    *)
ExecOrder(symbol, side, quantity_cents, price_cents, stop_loss_cents) ==
    [symbol |-> symbol, side |-> side, quantity_cents |-> quantity_cents,
     price_cents |-> price_cents, stop_loss_cents |-> stop_loss_cents]
NoExecOrder == ExecOrder("", "", 0, 0, 0)

(* The fields of the order that RiskManager.evaluate reads                 *)
GateOrder(order) ==
    MkOrder(order.quantity_cents, order.price_cents, order.stop_loss_cents)

(* A positions row; `held` tells the row from no row                       *)
NoHolding == [held |-> FALSE, quantity |-> 0, entry_price_cents |-> 0,
              stop_loss_cents |-> 0]

(* A trades row.  `verdict` is history: "approved" or "rejected" when the  *)
(* row was written after RiskManager.evaluate returned that verdict for    *)
(* the order, "none" when the row was written without an evaluate call.    *)
Trade(symbol, side, status, strategy, quantity_cents, verdict) ==
    [symbol |-> symbol, side |-> side, status |-> status, strategy |-> strategy,
     quantity_cents |-> quantity_cents, verdict |-> verdict]

(* _close_position lines 210-213 and close_position lines 298-301:         *)
(* int(quantity * (price - entry) / entry), 0 without an entry price       *)
position_pnl_cents(pos, price_cents) ==
    IF pos.entry_price_cents > 0
    THEN TruncDiv(pos.quantity * (price_cents - pos.entry_price_cents),
                  pos.entry_price_cents)
    ELSE 0

(* _open_or_add_position: the row after a filled buy                       *)
open_or_add_position(pos, order) ==
    IF pos.held
    THEN LET old_cost == pos.entry_price_cents * pos.quantity
             new_cost == order.price_cents * order.quantity_cents
             new_total_qty == pos.quantity + order.quantity_cents
         IN  [held |-> TRUE,
              quantity |-> new_total_qty,
              entry_price_cents |-> IF new_total_qty > 0
                                    THEN TruncDiv(old_cost + new_cost, new_total_qty)
                                    ELSE order.price_cents,
              stop_loss_cents |-> order.stop_loss_cents]
    ELSE [held |-> TRUE, quantity |-> order.quantity_cents,
          entry_price_cents |-> order.price_cents,
          stop_loss_cents |-> order.stop_loss_cents]

(* One coroutine per entry point: where it stands (pc), its order, the     *)
(* rows it has read, and as history the verdict evaluate gave the order    *)
(* ("none" when evaluate was not called) and whether the gate was halted   *)
(* or paused when the call started.                                        *)
ExecTasks == {"submit_order", "close_position", "close_all_positions"}
IdleTask == [pc |-> "idle", order |-> NoExecOrder, pos |-> NoHolding,
             snapshot |-> {}, verdict |-> "none", blocked |-> FALSE]

(* The executor over an empty database.  History: results is the sequence  *)
(* of pnl values the executor passed to record_trade_result, opened[s] the *)
(* number of positions rows created for symbol s, by the name of the       *)
(* entry point that removed the latest row, calls the number of calls made.*)
IdleExec ==
    [positions |-> [s \in ExecSymbols |-> NoHolding],
     trades |-> <<>>,
     results |-> <<>>,
     opened |-> [s \in ExecSymbols |-> 0],
     closed_by |-> "",
     calls |-> 0,
     task |-> [t \in ExecTasks |-> IdleTask]]

---------------------------------------------------------------------------
(* History of the calls, kept beside the program state:                    *)
(*   last          the call that has just returned (op "none" at the start *)
(*                 and once time has passed), with the verdict of an       *)
(*                 evaluate call;                                          *)
(*   latched[i]    how instance i was halted ("kill_switch", "drawdown"),  *)
(*                 "" when it was not or when reset_halt has been called   *)
(*                 since;                                                  *)
(*   phase         "kill_reset" when the last two calls were kill_switch   *)
(*                 and reset_halt, "kill_reset_evaluate" when an evaluate  *)
(*                 call has followed them, "" otherwise;                   *)
(*   run           negative results recorded since the most recent result  *)
(*                 with pnl >= 0;                                          *)
(*   recOnly       only record_trade_result has been called so far;        *)
(*   nRecorded     number of record_trade_result calls;                    *)
(*   newLosses     negative results since the latest of: a result with     *)
(*                 pnl >= 0, a pause deadline passing, a reset_halt (the   *)
(*                 three events meant to restart the count);               *)
(*   armedAt       time of the latest record_trade_result call that made   *)
(*                 newLosses reach the threshold (None before);            *)
(*   sumSinceReset sum of the pnl recorded by all instances since the last *)
(*                 reset_daily_pnl.                                        *)
NoVerdict == Verdict(FALSE, "", "", 0)
Call(op, i) == [op |-> op, inst |-> i, verdict |-> NoVerdict, raised |-> FALSE]

(* The risk gate after construction, Redis being up or down                *)
InitGate ==
    /\ redis_up \in BOOLEAN
    /\ store = NoRecord
    /\ now = 0
    /\ mem = [i \in Instances |-> InitFields]
    /\ last = Call("none", 1)
    /\ latched = [i \in Instances |-> ""]
    /\ phase = ""
    /\ run = 0
    /\ recOnly = TRUE
    /\ nRecorded = 0
    /\ armedAt = None
    /\ newLosses = 0
    /\ sumSinceReset = 0

(* No backtest is running                                                  *)
InitSimIdle ==
    /\ bt = [r \in Runs |-> BacktestBroker(DefaultStartingCashCents, 0, "default")]
    /\ engine = [market |-> "crypto", strategy |-> "", i |-> 0, phase |-> "idle"]
    /\ candles = [r \in Runs |-> <<>>]
    /\ given = [r \in Runs |-> NoCall]
    /\ prev = bt
    /\ strat = IdleStrat
    /\ metrics = [r \in Runs |-> NoMetrics]

Init == InitGate /\ InitSimIdle /\ exec = IdleExec

(* rm.evaluate(order) on instance i: the gate and its history             *)
GateEvaluate(i, order) ==
    LET r == evaluate(mem[i], order) IN
    /\ mem' = [mem EXCEPT ![i] = r.self]
    /\ last' = [op |-> "evaluate", inst |-> i, verdict |-> r.verdict,
                raised |-> r.raised]
    /\ latched' = [latched EXCEPT
                     ![i] = IF r.verdict.rule = DrawdownReason /\ @ = ""
                            THEN "drawdown" ELSE @]
    /\ phase' = IF phase = "kill_reset" THEN "kill_reset_evaluate" ELSE ""
    /\ recOnly' = FALSE
    /\ UNCHANGED <<store, now, redis_up, run, nRecorded, armedAt, newLosses,
                   sumSinceReset>>

Evaluate(i, order) == GateEvaluate(i, order) /\ UNCHANGED <<simVars, exec>>

(* a read of rm.is_paused on instance i (GET /api/admin/status)            *)
IsPaused(i) ==
    LET p == is_paused(mem[i]) IN
    /\ mem' = [mem EXCEPT ![i] = p.self]
    /\ last' = Call("is_paused", i)
    /\ phase' = ""
    /\ recOnly' = FALSE
    /\ UNCHANGED <<store, now, redis_up, latched, run, nRecorded, armedAt,
                   newLosses, sumSinceReset>>
    /\ UNCHANGED <<simVars, exec>>

(* rm.record_trade_result(pnl_cents) on instance i: the gate, the store   *)
(* and the history                                                         *)
GateRecordTradeResult(i, pnl_cents) ==
    LET self == record_trade_result(mem[i], pnl_cents)
        run1 == IF pnl_cents < 0 THEN run + 1 ELSE 0
        new1 == IF pnl_cents < 0 THEN newLosses + 1 ELSE 0
    IN  /\ mem' = [mem EXCEPT ![i] = self]
        /\ store' = save_state(self)
        /\ last' = Call("record_trade_result", i)
        /\ run' = run1
        /\ nRecorded' = nRecorded + 1
        /\ newLosses' = new1
        /\ armedAt' = IF new1 >= circuit_breaker_consecutive_losses THEN now ELSE armedAt
        /\ sumSinceReset' = sumSinceReset + pnl_cents
        /\ phase' = ""
        /\ UNCHANGED <<now, redis_up, latched, recOnly>>

RecordTradeResult(i, pnl_cents) ==
    GateRecordTradeResult(i, pnl_cents) /\ UNCHANGED <<simVars, exec>>

(* rm.kill_switch() on instance i                                          *)
KillSwitch(i) ==
    LET self == kill_switch(mem[i]) IN
    /\ mem' = [mem EXCEPT ![i] = self]
    /\ store' = save_state(self)
    /\ last' = Call("kill_switch", i)
    /\ latched' = [latched EXCEPT ![i] = "kill_switch"]
    /\ phase' = ""
    /\ recOnly' = FALSE
    /\ UNCHANGED <<now, redis_up, run, nRecorded, armedAt, newLosses, sumSinceReset>>
    /\ UNCHANGED <<simVars, exec>>

(* rm.reset_halt() on instance i                                           *)
ResetHalt(i) ==
    LET self == reset_halt(mem[i]) IN
    /\ mem' = [mem EXCEPT ![i] = self]
    /\ store' = save_state(self)
    /\ last' = Call("reset_halt", i)
    /\ latched' = [j \in Instances |-> ""]
    /\ phase' = IF last.op = "kill_switch" /\ last.inst = i THEN "kill_reset" ELSE ""
    /\ newLosses' = 0
    /\ recOnly' = FALSE
    /\ UNCHANGED <<now, redis_up, run, nRecorded, armedAt, sumSinceReset>>
    /\ UNCHANGED <<simVars, exec>>

(* rm.reset_daily_pnl() on instance i                                      *)
ResetDailyPnl(i) ==
    LET self == reset_daily_pnl(mem[i]) IN
    /\ mem' = [mem EXCEPT ![i] = self]
    /\ store' = save_state(self)
    /\ last' = Call("reset_daily_pnl", i)
    /\ sumSinceReset' = 0
    /\ phase' = ""
    /\ recOnly' = FALSE
    /\ UNCHANGED <<now, redis_up, latched, run, nRecorded, armedAt, newLosses>>
    /\ UNCHANGED <<simVars, exec>>

(* rm.set_portfolio_value(value_cents) on instance i: memory only          *)
SetPortfolioValue(i, value_cents) ==
    /\ mem[i].portfolio_value_cents # value_cents
    /\ mem' = [mem EXCEPT ![i] = set_portfolio_value(mem[i], value_cents)]
    /\ last' = Call("set_portfolio_value", i)
    /\ phase' = ""
    /\ recOnly' = FALSE
    /\ UNCHANGED <<store, now, redis_up, latched, run, nRecorded, armedAt,
                   newLosses, sumSinceReset>>
    /\ UNCHANGED <<simVars, exec>>

(* The process of instance i restarts: RiskManager() is built anew         *)
Restart(i) ==
    /\ mem' = [mem EXCEPT ![i] = load_state(InitFields)]
    /\ last' = Call("restart", i)
    /\ phase' = ""
    /\ recOnly' = FALSE
    /\ UNCHANGED <<store, now, redis_up, latched, run, nRecorded, armedAt,
                   newLosses, sumSinceReset>>
    /\ UNCHANGED <<simVars, exec>>

(* Time passes (datetime.now(timezone.utc) grows between calls)            *)
Tick ==
    /\ \E t \in Times :
         /\ t > now
         /\ now' = t
         /\ newLosses' = IF \E i \in Instances :
                              /\ mem[i].paused_until # None
                              /\ now < mem[i].paused_until
                              /\ mem[i].paused_until <= t
                         THEN 0 ELSE newLosses
    /\ last' = Call("none", 1)
    /\ UNCHANGED <<mem, store, redis_up, latched, phase, run, recOnly,
                   nRecorded, armedAt, sumSinceReset>>
    /\ UNCHANGED <<simVars, exec>>

(* One process                                                             *)
Next ==
    \/ \E order \in Orders : Evaluate(1, order)
    \/ IsPaused(1)
    \/ \E pnl_cents \in Pnls :
         nRecorded < MaxRecords /\ RecordTradeResult(1, pnl_cents)
    \/ KillSwitch(1)
    \/ ResetHalt(1)
    \/ ResetDailyPnl(1)
    \/ Tick

Spec == Init /\ [][Next]_vars

(* One process, with restarts and portfolio updates; fewer results, a loss *)
(* of 5% of the default portfolio and the win of the tests.                *)
LifePnls == {-50000, 500}
MaxLifeRecords == 3

NextLife ==
    \/ \E order \in Orders : Evaluate(1, order)
    \/ IsPaused(1)
    \/ \E pnl_cents \in LifePnls :
         nRecorded < MaxLifeRecords /\ RecordTradeResult(1, pnl_cents)
    \/ KillSwitch(1)
    \/ ResetHalt(1)
    \/ ResetDailyPnl(1)
    \/ Restart(1)
    \/ \E value_cents \in PortfolioValues : SetPortfolioValue(1, value_cents)
    \/ Tick

SpecLife == Init /\ [][NextLife]_vars

(* One process that only records results, evaluates orders and reads its   *)
(* status while time passes: the inputs are narrowed (the order, the loss  *)
(* and the win of the tests) so that longer runs of results fit.           *)
BreakerOrders == { MkOrder(5000, 15000, 14250) }
BreakerPnls == {-100, 500}
MaxBreakerRecords == 7

NextBreaker ==
    \/ \E order \in BreakerOrders : Evaluate(1, order)
    \/ IsPaused(1)
    \/ \E pnl_cents \in BreakerPnls :
         nRecorded < MaxBreakerRecords /\ RecordTradeResult(1, pnl_cents)
    \/ Tick

SpecBreaker == Init /\ [][NextBreaker]_vars

(* The API process and the scheduler worker on one store.  The inputs are  *)
(* narrowed (an order that passes the rules and one without a stop, one    *)
(* loss and one win, few results, one later instant) to keep the product   *)
(* of the two processes' states small.                                     *)
SharedOrders == { MkOrder(5000, 15000, 14250), MkOrder(5000, 15000, 0) }
SharedPnls == {-100, 500}
MaxSharedRecords == 2
SharedTimes == {0, MaxTicks * TickMinutes}

NextShared ==
    \/ \E i \in Instances :
         \/ \E order \in SharedOrders : Evaluate(i, order)
         \/ IsPaused(i)
         \/ \E pnl_cents \in SharedPnls :
              nRecorded < MaxSharedRecords /\ RecordTradeResult(i, pnl_cents)
         \/ KillSwitch(i)
         \/ ResetHalt(i)
         \/ ResetDailyPnl(i)
    \/ (Tick /\ now' \in SharedTimes)

SpecShared == Init /\ [][NextShared]_vars

(* One process whose orders run over the caps and the out-of-range fields, *)
(* with a portfolio of 1,000,000, of 100,000 or of nothing, and the loss   *)
(* of the tests (a drawdown breach once the portfolio is empty).           *)
RulePnls == {-100}
RulePortfolioValues == PortfolioValues \cup {0}
MaxRuleRecords == 3

NextRules ==
    \/ \E order \in RuleOrders : Evaluate(1, order)
    \/ \E pnl_cents \in RulePnls :
         nRecorded < MaxRuleRecords /\ RecordTradeResult(1, pnl_cents)
    \/ KillSwitch(1)
    \/ ResetHalt(1)
    \/ \E value_cents \in RulePortfolioValues : SetPortfolioValue(1, value_cents)
    \/ Tick

SpecRules == Init /\ [][NextRules]_vars

---------------------------------------------------------------------------
(* C1: on a RiskManager that is halted, by kill_switch or by a daily       *)
(* drawdown breach, every later evaluate call returns approved = false     *)
(* until reset_halt is called (one process: specification Spec).           *)
C1_HaltedRejectsUntilReset ==
    (latched[1] # "" /\ last.op = "evaluate") => ~last.verdict.approved

(* C2: two RiskManager instances on one store: once kill_switch has        *)
(* returned on one of them, no evaluate call on either instance approves   *)
(* an order until reset_halt is called (specification SpecShared).         *)
C2_KillSwitchSeenByEveryInstance ==
    (/\ redis_up
     /\ \E i \in Instances : latched[i] = "kill_switch"
     /\ last.op = "evaluate")
    => ~last.verdict.approved

(* What a process started now would find as halted status in the store     *)
StoredHalted == RedisGet.present /\ RedisGet.state.halted

(* C3: the halted status, in memory and in the store, goes from true to    *)
(* false only as the effect of a reset_halt call: not by the reload in     *)
(* evaluate, not by record_trade_result or reset_daily_pnl, not by a       *)
(* restart, not by the record expiring (specification SpecLife).           *)
C3_HaltClearedOnlyByResetHalt ==
    [][ (redis_up /\ ( (mem[1].halted /\ ~mem'[1].halted)
                       \/ (StoredHalted /\ ~StoredHalted') ))
        => last'.op = "reset_halt" ]_vars

---------------------------------------------------------------------------
(* The pause due to the N-th loss in a row has not run out yet             *)
PauseWindow ==
    armedAt # None /\ now < armedAt + circuit_breaker_pause_minutes

(* C4: after N negative results in a row (counted from the last result     *)
(* with pnl >= 0, the last pause deadline or the last reset_halt), at      *)
(* every time before the pause duration has elapsed, is_paused is true and *)
(* evaluate of an order that passes the order rules is rejected with the   *)
(* circuit breaker reason (specification SpecBreaker).                     *)
C4_PausedAfterNLosses ==
    /\ [](PauseWindow => is_paused(mem[1]).ret)
    /\ [][ \A order \in Orders :
             (PauseWindow /\ RulesOk(mem[1], order) /\ Evaluate(1, order))
             => (~last'.verdict.approved
                 /\ last'.verdict.rule = "Circuit breaker active") ]_vars

(* C5: once the pause deadline has passed, an order that passes the rules  *)
(* is approved (the gate being neither halted nor in drawdown breach), and *)
(* a record_trade_result call arms a new pause only when N new consecutive *)
(* losses have been recorded, whichever call comes first after the         *)
(* deadline.                                                               *)
C5_NormalAfterDeadline ==
    /\ [][ \A order \in Orders :
             (/\ armedAt # None /\ ~PauseWindow
              /\ RulesOk(mem[1], order)
              /\ ~load_state(mem[1]).halted
              /\ ~DrawdownBreach(load_state(mem[1]))
              /\ Evaluate(1, order))
             => last'.verdict.approved ]_vars
    /\ [][ (last'.op = "record_trade_result"
            /\ mem'[1].paused_until # mem[1].paused_until)
           => newLosses' >= circuit_breaker_consecutive_losses ]_vars

(* C6: whenever the daily P&L is negative and at least the drawdown        *)
(* threshold in size, the next evaluate call is rejected and leaves the    *)
(* gate halted, paused or not, whatever the order.                         *)
C6_DrawdownBreachHalts ==
    [][ \A order \in Orders :
          (DrawdownBreach(load_state(mem[1])) /\ Evaluate(1, order))
          => (~last'.verdict.approved /\ mem'[1].halted) ]_vars

(* C7: after any sequence of record_trade_result calls the consecutive     *)
(* loss counter is the number of negative results since the most recent    *)
(* result with pnl >= 0, and a record_trade_result call arms a pause only  *)
(* when that number has reached N.                                         *)
C7_CounterIsTrailingLosses ==
    /\ [](recOnly => mem[1].consecutive_losses = run)
    /\ [][ (last'.op = "record_trade_result"
            /\ mem'[1].paused_until # mem[1].paused_until)
           => run' >= circuit_breaker_consecutive_losses ]_vars

(* Witness of C7: only results were recorded, four of them: two losses of  *)
(* 100, a win of 500, a loss of 100; the counter is 1 and no pause is set. *)
C7_Witness ==
    /\ recOnly
    /\ nRecorded = 4
    /\ run = 1
    /\ mem[1].consecutive_losses = 1
    /\ mem[1].daily_pnl_cents = 200
    /\ mem[1].paused_until = None

(* C8 as stated: after kill_switch followed by reset_halt, is_halted is    *)
(* false and evaluate approves every order that passes the stop-loss,      *)
(* position-size and per-trade-risk rules.                                 *)
C8_ResetHaltResumes ==
    /\ [](phase = "kill_reset" => ~mem[1].halted)
    /\ [][ \A order \in Orders :
             (phase = "kill_reset" /\ RulesOk(mem[1], order) /\ Evaluate(1, order))
             => last'.verdict.approved ]_vars

(* C8 amended: the same, provided the gate is not circuit-paused and the   *)
(* daily P&L is not in drawdown breach when evaluate is called.            *)
C8_ResetHaltResumesUnlessPausedOrBreach ==
    /\ [](phase = "kill_reset" => ~mem[1].halted)
    /\ [][ \A order \in Orders :
             (/\ phase = "kill_reset"
              /\ RulesOk(mem[1], order)
              /\ ~is_paused(load_state(mem[1])).ret
              /\ ~DrawdownBreach(load_state(mem[1]))
              /\ Evaluate(1, order))
             => last'.verdict.approved ]_vars

(* Witness of C8: kill_switch, reset_halt, then an evaluate call that      *)
(* approved its order.                                                     *)
C8_Witness ==
    /\ phase = "kill_reset_evaluate"
    /\ last.op = "evaluate"
    /\ last.verdict.approved
    /\ ~mem[1].halted

(* C9: every evaluate call and every record_trade_result call leaves the   *)
(* stored record equal to the in-memory state of the instance.             *)
C9_StoreEqualsMemoryAfterCall ==
    (redis_up /\ last.op \in {"evaluate", "record_trade_result"})
    => (RedisGet.present /\ RedisGet.state = StateDict(mem[last.inst]))

(* C10: two instances recording results on one store: after each           *)
(* record_trade_result call the stored daily P&L is the sum of all pnl     *)
(* recorded by both since the last reset_daily_pnl.                        *)
C10_NoResultLost ==
    (redis_up /\ last.op = "record_trade_result")
    => (RedisGet.present /\ RedisGet.state.daily_pnl_cents = sumSinceReset)

---------------------------------------------------------------------------
(* The rules of evaluate as the specification words them                   *)

(* The object is in its normal state: not halted, not paused, its daily    *)
(* loss below the drawdown limit.                                          *)
GateNormal(self) ==
    /\ ~self.halted
    /\ ~(self.paused_until # None /\ now < self.paused_until)
    /\ ~DrawdownBreach(self)

(* int(quantity * |price - stop| / price), the whole quantity when the     *)
(* price is not positive                                                   *)
StatedRiskCents(order) ==
    IF order.price_cents > 0
    THEN TruncDiv(order.quantity_cents * Abs(order.price_cents - order.stop_loss_cents),
                  order.price_cents)
    ELSE order.quantity_cents

StatedRulesOk(self, order) ==
    /\ order.stop_loss_cents > 0
    /\ order.quantity_cents <= max_position_size_cents
    /\ StatedRiskCents(order) <= IntDiv(self.portfolio_value_cents * max_per_trade_risk_pct, 100)

(* The rules in the order of evaluate, and the text each one writes        *)
RuleTexts == << "Trading halted", "Circuit breaker active", "stop-loss is mandatory",
                "Position size exceeds max", "Per-trade risk exceeds max",
                DrawdownReason >>

RuleFails(k, self, order) ==
    CASE k = 1 -> self.halted
      [] k = 2 -> self.paused_until # None /\ now < self.paused_until
      [] k = 3 -> order.stop_loss_cents <= 0
      [] k = 4 -> order.quantity_cents > max_position_size_cents
      [] k = 5 -> risk_per_trade_cents(order) > max_risk_cents(self)
      [] k = 6 -> DrawdownBreach(self)

FirstFailingRule(self, order) ==
    LET failing == {k \in 1..Len(RuleTexts) : RuleFails(k, self, order)}
    IN  IF failing = {} THEN "All risk checks passed"
        ELSE RuleTexts[CHOOSE k \in failing : \A j \in failing : k <= j]

(* C11: for a gate that is not halted, not paused and not in drawdown      *)
(* breach, evaluate approves an order exactly when its stop is positive,   *)
(* its quantity is at most max_position_size_cents and                     *)
(* int(quantity * |price - stop| / price) is at most                       *)
(* int(portfolio * max_per_trade_risk_pct / 100).                          *)
C11_ApprovedIffWithinCaps ==
    [][\A order \in RuleOrders :
         (/\ Evaluate(1, order)
          /\ GateNormal(mem[1])
          /\ GateNormal(load_state(mem[1])))
         => (last'.verdict.approved <=> StatedRulesOk(load_state(mem[1]), order))]_vars

(* C12: with a portfolio of 1,000,000 (cap 20,000) the order of price      *)
(* 50,000, stop 1 and quantity 5,000 is rejected by a normal gate, with a  *)
(* reason that names the per-trade risk.                                   *)
C12_FarStopRejected ==
    [][(/\ Evaluate(1, MkOrder(5000, 50000, 1))
        /\ GateNormal(mem[1])
        /\ GateNormal(load_state(mem[1]))
        /\ mem[1].portfolio_value_cents = DefaultPortfolioValueCents)
       => (/\ ~last'.verdict.approved
           /\ last'.verdict.rule = "Per-trade risk exceeds max")]_vars

(* C13: an evaluate call that rejects because the gate is halted or        *)
(* paused, or because of the stop-loss, size or per-trade risk rule,       *)
(* leaves halted, halt_reason, consecutive_losses, daily_pnl_cents and     *)
(* paused_until as they were, in memory and in the store.                  *)
FrameFields(self) ==
    << self.halted, self.halt_reason, self.consecutive_losses,
       self.daily_pnl_cents, self.paused_until >>

C13_RejectionChangesNothing ==
    [][\A order \in RuleOrders :
         (/\ Evaluate(1, order)
          /\ \E k \in 1..5 : last'.verdict.rule = RuleTexts[k])
         => (/\ FrameFields(mem'[1]) = FrameFields(mem[1])
             /\ store' = store)]_vars

(* C14: evaluate never raises, whatever the fields of the order and the    *)
(* portfolio value; its verdict carries a non-empty reason, which is that  *)
(* of the first failing rule in the order halted, circuit breaker,         *)
(* stop-loss, position size, per-trade risk, daily drawdown.               *)
C14_ReasonIsFirstFailingRule ==
    [][\A order \in RuleOrders :
         Evaluate(1, order)
         => (/\ ~last'.raised
             /\ last'.verdict.rule # ""
             /\ last'.verdict.rule = FirstFailingRule(load_state(mem[1]), order)
             /\ (last'.verdict.rule = RuleTexts[1] <=> load_state(mem[1]).halted))]_vars

(* An order with price 0, one with a negative stop and one evaluated with  *)
(* an empty portfolio have all been answered; the last verdict is a        *)
(* circuit-breaker rejection of an order that also lacks its stop.         *)
C14_Witness ==
    /\ last.op = "evaluate"
    /\ ~last.raised
    /\ last.verdict.rule = RuleTexts[2]
    /\ mem[1].portfolio_value_cents = 0

---------------------------------------------------------------------------
(* Backtest engine (app/services/backtest/engine.py)                       *)

(* MIN_WARMUP_BARS, and the bars run() requires beyond them (l.81)         *)
MIN_WARMUP_BARS == 30
MinLoopBars == 10

(* Bounds of the simulator runs                                            *)
MaxBars == 3
MaxVariedBars == 2

(* The double nearest to 0.01 (_apply_position_sizing, l.225)              *)
RiskBudgetFraction == Double(<<5243, 3932, 27525, 163>>, 59)

(* BacktestEngine._apply_position_sizing; atr_distance is int(ATR * 2) of  *)
(* the window, or price // 20 when the ATR is NaN.                         *)
apply_position_sizing(signal, atr_distance, portfolio_value_cents) ==
    LET risk_budget_cents == int_of_product(portfolio_value_cents, RiskBudgetFraction)
        d0 == Abs(signal.price_cents - signal.stop_loss_cents)
        d1 == IF d0 <= 0 THEN atr_distance ELSE d0
        stop_distance == IF d1 <= 0 THEN Max(1, signal.price_cents \div 20) ELSE d1
        q0 == IF signal.price_cents > 0
              THEN IntDiv(risk_budget_cents * signal.price_cents, stop_distance)
              ELSE risk_budget_cents
    IN  [signal EXCEPT
           !.quantity_cents = Max(100, Min(q0, max_position_size_cents))]

(* run(), l.107 with the whole frame in place of the window                *)
engine_window_whole(df, i) == df

(* run(), l.107: window = df.iloc[: i + 1]                                 *)
engine_window(df, i) == SubSeq(df, 1, i + 1)

(* A window without any price move: RSI is NaN and the strategies return   *)
(* no signal (momentum.py l.55-56, meanrev.py l.62-63).                    *)
is_flat(window) == \A j \in 1..Len(window) : window[j] = FlatCandle

(* What a strategy may answer on a window; on equal windows it answers the *)
(* same (generate_signals reads nothing but its arguments).                *)
(* The lists it may return: nothing, one buy, one sell, a weaker buy       *)
(* before a stronger sell, a sell before a buy of the same strength, a buy *)
(* before a sell of the same strength.                                     *)
StrategyChoices == {"none", "buy", "sell", "buy_sell", "sell_buy_tie", "buy_sell_tie"}

(* strategy.generate_signals(window, ...) (l.116): the price of a signal   *)
(* is the close of the last bar of the window, the stop of a buy lies 500  *)
(* below it.                                                               *)
generate_signals(strategy_name, window, choice) ==
    LET current_close == window[Len(window)].close
        buy == buy_signal(strategy_name, current_close, current_close - 500, 100)
        sell == sell_signal(strategy_name, current_close)
    IN  IF is_flat(window) \/ choice = "none" THEN <<>>
        ELSE IF choice = "buy" THEN <<Generated(buy, 70)>>
        ELSE IF choice = "sell" THEN <<Generated(sell, 80)>>
        ELSE IF choice = "buy_sell" THEN <<Generated(buy, 50), Generated(sell, 80)>>
        ELSE IF choice = "sell_buy_tie" THEN <<Generated(sell, 60), Generated(buy, 60)>>
        ELSE <<Generated(buy, 60), Generated(sell, 60)>>

(* max(signals, key=lambda s: s.strength): the first signal of the         *)
(* greatest strength (signals is not empty)                                *)
RECURSIVE strongest_signal(_)
strongest_signal(signals) ==
    IF Len(signals) = 1 THEN signals[1]
    ELSE LET rest == strongest_signal(Tail(signals))
         IN  IF signals[1].strength >= rest.strength THEN signals[1] ELSE rest

(* a selection that falls back on the strongest buy when the strongest     *)
(* signal is a sell without a position                                     *)
select_signal_fallback(signals, has_position) ==
    IF signals = <<>> THEN NoSignal
    ELSE LET best == strongest_signal(signals)
             buys == SelectSeq(signals, LAMBDA g : g.signal.action = "buy")
         IN  IF best.signal.action = "sell" /\ ~has_position
             THEN IF buys = <<>> THEN NoSignal ELSE strongest_signal(buys).signal
             ELSE best.signal

(* run(), l.118-125: the strongest signal, dropped when it is a sell and   *)
(* no position is held                                                     *)
select_signal(signals, has_position) ==
    IF signals = <<>> THEN NoSignal
    ELSE LET best == strongest_signal(signals)
         IN  IF best.signal.action = "sell" /\ ~has_position
             THEN NoSignal
             ELSE best.signal

(* One iteration of the loop of run() (l.106-143) on frame df at index i   *)
(* (0-based): the signal handed to the broker and the broker afterwards.   *)
engine_bar(b, df, i, choice, market, strategy_name) ==
    LET window == engine_window(df, i)
        bar == df[i + 1]
        signals == generate_signals(strategy_name, window, choice)
        kept == select_signal(signals, b.position.held)
        last_bar == window[Len(window)]
        best_signal ==
            IF kept.action = "buy"
            THEN apply_position_sizing(kept, 2 * (last_bar.high - last_bar.low),
                                       get_equity_cents(b, bar.close))
            ELSE kept
    IN  [signals |-> signals,
         signal |-> best_signal,
         broker |-> process_bar(b, best_signal, bar, i, market)]

---------------------------------------------------------------------------
(* The broker driven bar by bar (run "a")                                  *)

(* The signals a strategy may hand over on a bar: none, a sell, a buy of   *)
(* 6000 with its stop 500 below the close, a buy of twice the size cap     *)
(* whose computed stop is negative, a buy of a negative quantity.          *)
BrokerSignals(strategy_name, bar) ==
    { NoSignal,
      sell_signal(strategy_name, bar.close),
      buy_signal(strategy_name, bar.close, bar.close - 500, 6000),
      buy_signal(strategy_name, bar.close, -3000, 20000),
      buy_signal(strategy_name, bar.close, bar.close - 500, -100) }

(* The runs: starting cash, market and strategy                            *)
BrokerConfigs ==
    { [cash |-> DefaultStartingCashCents, market |-> "crypto", strategy |-> "meanrev"],
      [cash |-> DefaultStartingCashCents, market |-> "us", strategy |-> "turtle_stocks"],
      [cash |-> 7000, market |-> "crypto", strategy |-> "momentum"] }

InitBroker ==
    /\ InitGate
    /\ exec = IdleExec
    /\ redis_up = TRUE
    /\ \E c \in BrokerConfigs :
         /\ bt = [r \in Runs |-> BacktestBroker(c.cash, 0, "default")]
         /\ engine = [market |-> c.market, strategy |-> c.strategy, i |-> 0,
                      phase |-> "broker"]
    /\ candles = [r \in Runs |-> <<>>]
    /\ given = [r \in Runs |-> NoCall]
    /\ prev = bt
    /\ strat = IdleStrat
    /\ metrics = [r \in Runs |-> NoMetrics]

(* broker.process_bar(signal, high, low, close, bar_time, bar_index,       *)
(* market) on run r, for the next bar index                                *)
ProcessBar(r, signal, bar) ==
    /\ bt' = [bt EXCEPT ![r] = process_bar(bt[r], signal, bar, engine.i, engine.market)]
    /\ prev' = [prev EXCEPT ![r] = bt[r]]
    /\ given' = [given EXCEPT ![r] = BrokerCall("process_bar", signal, bar, engine.i)]
    /\ engine' = [engine EXCEPT !.i = @ + 1]
    /\ UNCHANGED <<candles, strat, metrics>>
    /\ UNCHANGED <<gateVars, exec>>

(* broker.force_close(price, bar_time, bar_index, market) on run r, at the *)
(* index of the last bar processed (the caller passes that bar's close)    *)
ForceClose(r, price_cents) ==
    /\ bt[r].position.held
    /\ bt' = [bt EXCEPT ![r] = force_close(bt[r], price_cents,
                                           Max(engine.i - 1, 0), engine.market)]
    /\ prev' = [prev EXCEPT ![r] = bt[r]]
    /\ given' = [given EXCEPT ![r] = BrokerCall("force_close", NoSignal,
                                                Bar(price_cents, price_cents, price_cents),
                                                Max(engine.i - 1, 0))]
    /\ UNCHANGED <<engine, candles, strat, metrics>>
    /\ UNCHANGED <<gateVars, exec>>

NextBroker ==
    \/ \E bar \in BrokerBars :
         \E signal \in BrokerSignals(engine.strategy, bar) :
            engine.i < MaxBars /\ ProcessBar("a", signal, bar)
    \/ ForceClose("a", given["a"].bar.close)

SpecBroker == InitBroker /\ [][NextBroker]_vars

---------------------------------------------------------------------------
(* Two engine runs in step, on frames that may differ                      *)

(* Frames of MIN_WARMUP_BARS + MinLoopBars candles, flat but for the last  *)
(* MaxVariedBars                                                           *)
FrameLen == MIN_WARMUP_BARS + MinLoopBars
EngineFrames ==
    { [j \in 1..FrameLen |->
         IF j <= FrameLen - MaxVariedBars THEN FlatCandle
         ELSE tail[j - (FrameLen - MaxVariedBars)]] :
      tail \in [1..MaxVariedBars -> EngineCandles] }

InitEngine ==
    /\ InitGate
    /\ exec = IdleExec
    /\ redis_up = TRUE
    /\ candles \in [Runs -> EngineFrames]
    /\ bt = [r \in Runs |-> BacktestBroker(DefaultStartingCashCents, 0, "default")]
    /\ engine = [market |-> "crypto", strategy |-> "meanrev", i |-> MIN_WARMUP_BARS,
                 phase |-> "loop"]
    /\ given = [r \in Runs |-> NoCall]
    /\ prev = bt
    /\ strat = IdleStrat
    /\ metrics = [r \in Runs |-> NoMetrics]

(* The answers of the strategy in the runs compared                        *)
LockstepChoices == {"none", "buy", "sell"}

(* One iteration of the loop, in every run, the strategy answering with    *)
(* one of choices                                                          *)
EngineBar(choices) ==
    /\ engine.phase = "loop"
    /\ \A r \in Runs : engine.i < Len(candles[r])
    /\ \E choice \in [Runs -> choices] :
         /\ \A r1, r2 \in Runs :
               engine_window(candles[r1], engine.i) = engine_window(candles[r2], engine.i)
               => choice[r1] = choice[r2]
         /\ LET step == [r \in Runs |->
                           engine_bar(bt[r], candles[r], engine.i, choice[r],
                                      engine.market, engine.strategy)]
            IN  /\ bt' = [r \in Runs |-> step[r].broker]
                /\ given' = [r \in Runs |->
                               BrokerCall("process_bar", step[r].signal,
                                          candles[r][engine.i + 1], engine.i)]
                /\ strat' = [strat EXCEPT !.generated = [r \in Runs |-> step[r].signals]]
    /\ prev' = bt
    /\ engine' = [engine EXCEPT !.i = @ + 1]
    /\ UNCHANGED <<candles, metrics>>
    /\ UNCHANGED <<gateVars, exec>>

(* After the loop (l.145-164): force-close at the close of the last bar,   *)
(* then compute_metrics on the broker                                      *)
EngineEnd ==
    /\ engine.phase = "loop"
    /\ \A r \in Runs : engine.i = Len(candles[r])
    /\ bt' = [r \in Runs |->
                force_close(bt[r], candles[r][Len(candles[r])].close,
                            Len(candles[r]) - 1, engine.market)]
    /\ given' = [r \in Runs |->
                   BrokerCall("force_close", NoSignal, candles[r][Len(candles[r])],
                              Len(candles[r]) - 1)]
    /\ prev' = bt
    /\ metrics' = [r \in Runs |->
                     compute_metrics(force_close(bt[r], candles[r][Len(candles[r])].close,
                                                 Len(candles[r]) - 1, engine.market))]
    /\ engine' = [engine EXCEPT !.phase = "done"]
    /\ UNCHANGED <<candles, strat>>
    /\ UNCHANGED <<gateVars, exec>>

NextEngine == EngineBar(LockstepChoices) \/ EngineEnd

SpecEngine == InitEngine /\ [][NextEngine]_vars

(* One engine run (both runs on the same frame) with every list of signals *)
InitSelect ==
    /\ InitEngine
    /\ \A r1, r2 \in Runs : candles[r1] = candles[r2]

NextSelect == EngineBar(StrategyChoices) \/ EngineEnd

SpecSelect == InitSelect /\ [][NextSelect]_vars

---------------------------------------------------------------------------
(* The backtest claims                                                     *)

(* The frames of two runs agree on their first n candles                   *)
AgreeThrough(r1, r2, n) == SubSeq(candles[r1], 1, n) = SubSeq(candles[r2], 1, n)

(* C15: in a backtest run the signal chosen at bar i and the simulator     *)
(* state after bar i (position, cash, closed trades, equity curve) depend  *)
(* only on candles[0..i]: two runs whose frames agree through the last bar *)
(* processed have been handed the same signals and are in the same state.  *)
C15_NoLookAhead ==
    \A r1, r2 \in Runs :
        (/\ engine.phase = "loop"
         /\ engine.i > MIN_WARMUP_BARS
         /\ AgreeThrough(r1, r2, engine.i))
        => (bt[r1] = bt[r2] /\ given[r1] = given[r2])

(* Two frames that differ in their last candle only; the bar before it has *)
(* been processed and a position was opened on it.                         *)
C15_Witness ==
    /\ engine.phase = "loop"
    /\ engine.i = FrameLen - 1
    /\ AgreeThrough("a", "b", engine.i)
    /\ candles["a"] # candles["b"]
    /\ given["a"].signal.action = "buy"
    /\ bt["a"].position.held

(* The last call was process_bar on a bar whose low reached the stop of    *)
(* the position then held                                                  *)
StopHit(r) ==
    /\ given[r].op = "process_bar"
    /\ prev[r].position.held
    /\ given[r].bar.low <= prev[r].position.stop_loss_cents

(* The quantity a buy signal gets: its request, capped by the size limit   *)
(* and by the cash at hand                                                 *)
FundedQuantity(signal, cash_cents) ==
    Min(Min(signal.quantity_cents, max_position_size_cents), cash_cents)

(* C16: when process_bar is called with a position held and the low of the *)
(* bar at or below its stop, the position is closed at the stop price      *)
(* (exit fill int(stop * (1 - fee)), exit_reason "stop_loss") before the   *)
(* signal is looked at: a sell signal on that bar closes nothing more, a   *)
(* buy signal on that bar opens a new position and is no pyramid-add.      *)
C16_StopBeforeSignal ==
    StopHit("a") =>
        LET before == prev["a"]
            after  == bt["a"]
            signal == given["a"].signal
            k      == get_fee_rate(before.fee_tier, engine.market)
            n      == Len(before.closed_trades)
            funded == FundedQuantity(signal, after.closed_trades[n + 1].pnl_cents
                                             + before.position.quantity_cents
                                             + before.cash_cents)
        IN  /\ Len(after.closed_trades) = n + 1
            /\ after.closed_trades[n + 1].exit_reason = "stop_loss"
            /\ after.closed_trades[n + 1].exit_price_cents
                 = sell_fill_price(before.position.stop_loss_cents, k)
            /\ after.closed_trades[n + 1].quantity_cents = before.position.quantity_cents
            /\ after.closed_trades[n + 1].entry_price_cents
                 = before.position.entry_price_cents
            /\ signal.action # "buy" => ~after.position.held
            /\ signal.action = "buy" =>
                 /\ after.position.held <=> funded >= 100
                 /\ after.position.held =>
                      /\ after.position.pyramid_count = 1
                      /\ after.position.quantity_cents = funded
                      /\ after.position.entry_price_cents
                           = buy_fill_price(signal.price_cents, k)
                      /\ after.position.entry_bar_index = given["a"].bar_index
                      /\ after.position.stop_loss_cents = signal.stop_loss_cents

(* A stop was hit on a bar that came with a buy signal, and a position is  *)
(* open again                                                              *)
C16_Witness ==
    /\ StopHit("a")
    /\ given["a"].signal.action = "buy"
    /\ bt["a"].position.held
    /\ bt["a"].position.pyramid_count = 1

RECURSIVE SumPnl(_)
SumPnl(trades) ==
    IF trades = <<>> THEN 0 ELSE Head(trades).pnl_cents + SumPnl(Tail(trades))

(* C17: cash_cents plus the quantity of the open position (0 without one)  *)
(* equals starting_cash_cents plus the sum of pnl_cents over the closed    *)
(* trades, after any sequence of process_bar and force_close; the pnl of a *)
(* trade is int(quantity * (exit fill - entry) / entry).                   *)
C17_CashPlusPositionConserved ==
    LET b == bt["a"] IN
    /\ b.cash_cents + (IF b.position.held THEN b.position.quantity_cents ELSE 0)
         = b.starting_cash_cents + SumPnl(b.closed_trades)
    /\ \A j \in 1..Len(b.closed_trades) :
         LET t == b.closed_trades[j] IN
         t.entry_price_cents > 0 =>
            t.pnl_cents = TruncDiv(t.quantity_cents
                                     * (t.exit_price_cents - t.entry_price_cents),
                                   t.entry_price_cents)

(* A trade has been closed with a loss and the position now held has been  *)
(* added to                                                                *)
C17_Witness ==
    /\ Len(bt["a"].closed_trades) >= 1
    /\ bt["a"].closed_trades[1].pnl_cents < 0
    /\ bt["a"].position.held
    /\ bt["a"].position.pyramid_count >= 2

(* C18: cash_cents is never negative, after any sequence of process_bar    *)
(* and force_close with non-negative prices and starting cash, whatever    *)
(* quantities the signals request.                                         *)
C18_CashNeverNegative == bt["a"].cash_cents >= 0

(* A buy of more than the cash at hand has taken all of it                 *)
C18_Witness ==
    /\ given["a"].op = "process_bar"
    /\ given["a"].signal.action = "buy"
    /\ given["a"].signal.quantity_cents > prev["a"].cash_cents
    /\ prev["a"].cash_cents >= 100
    /\ bt["a"].cash_cents = 0

(* C19: every open position has stop_loss_cents > 0, after any sequence of *)
(* process_bar calls.                                                      *)
C19_OpenPositionHasStop ==
    bt["a"].position.held => bt["a"].position.stop_loss_cents > 0

(* A position opened by a buy whose computed stop was negative             *)
C19_Witness ==
    /\ given["a"].op = "process_bar"
    /\ ~prev["a"].position.held
    /\ bt["a"].position.held
    /\ bt["a"].position.stop_loss_cents = 1

(* C20: a buy signal that arrives while a position is held adds to it only *)
(* when it comes from a strategy that supports pyramiding (Turtle); a      *)
(* repeated buy from Momentum or Mean-Reversion leaves the quantity, entry *)
(* price, stop and pyramid count of the position unchanged.                *)
C20_OnlyTurtlePyramids ==
    (/\ given["a"].op = "process_bar"
     /\ given["a"].signal.action = "buy"
     /\ given["a"].signal.strategy_name \in {"momentum", "meanrev"}
     /\ prev["a"].position.held
     /\ ~StopHit("a"))
    => bt["a"].position = prev["a"].position

---------------------------------------------------------------------------
(* The broker with a cooldown (run "a")                                    *)

MaxCooldownBars == 4
CooldownChoices == {1, 2}
CooldownBars == { Bar(10100, 9900, 10000), Bar(10000, 9000, 9500) }
CooldownSignals(strategy_name, bar) ==
    { NoSignal,
      sell_signal(strategy_name, bar.close),
      buy_signal(strategy_name, bar.close, bar.close - 500, 6000) }

InitCooldown ==
    /\ InitGate
    /\ exec = IdleExec
    /\ redis_up = TRUE
    /\ \E n \in CooldownChoices :
         bt = [r \in Runs |-> BacktestBroker(DefaultStartingCashCents, n, "default")]
    /\ engine = [market |-> "crypto", strategy |-> "meanrev", i |-> 0,
                 phase |-> "broker"]
    /\ candles = [r \in Runs |-> <<>>]
    /\ given = [r \in Runs |-> NoCall]
    /\ prev = bt
    /\ strat = IdleStrat
    /\ metrics = [r \in Runs |-> NoMetrics]

NextCooldown ==
    \/ \E bar \in CooldownBars :
         \E signal \in CooldownSignals(engine.strategy, bar) :
            engine.i < MaxCooldownBars /\ ProcessBar("a", signal, bar)
    \/ ForceClose("a", given["a"].bar.close)

SpecCooldown == InitCooldown /\ [][NextCooldown]_vars

---------------------------------------------------------------------------
(* Pyramiding and cooldown claims                                          *)

(* The last call was process_bar with a buy signal that was added to the   *)
(* position held                                                           *)
PyramidAdded(r) ==
    /\ given[r].op = "process_bar"
    /\ given[r].signal.action = "buy"
    /\ prev[r].position.held
    /\ ~StopHit(r)
    /\ FundedQuantity(given[r].signal, prev[r].cash_cents) >= 100

(* C21: a successful pyramid-add of add_qty at fill price f turns a         *)
(* position with entry e, quantity q and pyramid_count k into one with     *)
(* quantity q + add_qty, pyramid_count k + 1 and entry                     *)
(* int((e*q + f*add_qty) / (q + add_qty)), which lies between min(e, f)    *)
(* and max(e, f).                                                          *)
C21_PyramidAveragesEntry ==
    PyramidAdded("a") =>
        LET before  == prev["a"].position
            after   == bt["a"].position
            signal  == given["a"].signal
            add_qty == FundedQuantity(signal, prev["a"].cash_cents)
            f == buy_fill_price(signal.price_cents,
                                get_fee_rate(prev["a"].fee_tier, engine.market))
            e == before.entry_price_cents
            q == before.quantity_cents
        IN  /\ after.held
            /\ after.quantity_cents = q + add_qty
            /\ after.pyramid_count = before.pyramid_count + 1
            /\ after.entry_price_cents = TruncDiv(e * q + f * add_qty, q + add_qty)
            /\ Min(e, f) <= after.entry_price_cents
            /\ after.entry_price_cents <= Max(e, f)

(* An add of a quantity other than the one held, at a fill above the entry *)
C21_Witness ==
    /\ PyramidAdded("a")
    /\ prev["a"].position.quantity_cents
         # FundedQuantity(given["a"].signal, prev["a"].cash_cents)
    /\ prev["a"].position.entry_price_cents > 0
    /\ bt["a"].position.entry_price_cents > prev["a"].position.entry_price_cents

(* C22: after a successful pyramid-add whose signal has stop_loss_cents >  *)
(* 0, the stop of the position equals the stop of that signal, also when   *)
(* this is lower than the stop the position had before.                    *)
C22_PyramidStopOverwritten ==
    (PyramidAdded("a") /\ given["a"].signal.stop_loss_cents > 0)
    => bt["a"].position.stop_loss_cents = given["a"].signal.stop_loss_cents

(* An add that has lowered the stop                                        *)
C22_Witness ==
    /\ PyramidAdded("a")
    /\ given["a"].signal.stop_loss_cents > 0
    /\ given["a"].signal.stop_loss_cents < prev["a"].position.stop_loss_cents
    /\ bt["a"].position.stop_loss_cents < prev["a"].position.stop_loss_cents

(* The last call was process_bar with a buy signal and no position was     *)
(* held when the signal was looked at                                      *)
BuyWithoutPosition(r) ==
    /\ given[r].op = "process_bar"
    /\ given[r].signal.action = "buy"
    /\ (~prev[r].position.held \/ StopHit(r))

(* C23: with cooldown_bars = N > 0, after a position is closed at bar       *)
(* index c (by stop-loss, by a sell signal or by force_close) no position  *)
(* is opened at a bar index b with b - c < N, the bar c itself included,   *)
(* and a buy at a bar b >= c + N is not blocked by the cooldown: it opens  *)
(* a position whenever its funded quantity reaches the minimum.            *)
C23_CooldownBlocksReentry ==
    BuyWithoutPosition("a") =>
        LET after == bt["a"]
            n == Len(after.closed_trades)
            b == given["a"].bar_index
            cash_before == after.cash_cents
                           + (IF after.position.held
                              THEN after.position.quantity_cents ELSE 0)
        IN  IF n > 0 /\ b - after.closed_trades[n].exit_time < after.cooldown_bars
            THEN ~after.position.held
            ELSE after.position.held
                 <=> FundedQuantity(given["a"].signal, cash_before) >= 100

(* A stop was hit on a bar that came with a buy signal, and the cooldown   *)
(* has kept the position from being reopened on that bar                   *)
C23_Witness ==
    /\ StopHit("a")
    /\ given["a"].signal.action = "buy"
    /\ bt["a"].cooldown_bars > 0
    /\ FundedQuantity(given["a"].signal, bt["a"].cash_cents) >= 100
    /\ ~bt["a"].position.held

---------------------------------------------------------------------------
(* End of run and signal selection                                         *)

(* C24: when a run finishes its bar loop with a position still open, the   *)
(* position is force-closed at the close of the last bar (exit_reason      *)
(* "backtest_end") before the metrics are computed: compute_metrics sees   *)
(* no open position and the ending equity it reports equals the cash, which *)
(* is then the whole equity of the broker.                                 *)
C24_ForceCloseBeforeMetrics ==
    engine.phase = "done" =>
        \A r \in Runs :
            LET before == prev[r]
                after  == bt[r]
                last_bar == candles[r][Len(candles[r])]
                n == Len(before.closed_trades)
            IN  /\ metrics[r].computed
                /\ ~after.position.held
                /\ metrics[r].ending_equity_cents = after.cash_cents
                /\ metrics[r].ending_equity_cents = get_equity_cents(after, last_bar.close)
                /\ metrics[r].total_trades = Len(after.closed_trades)
                /\ before.position.held =>
                      /\ Len(after.closed_trades) = n + 1
                      /\ after.closed_trades[n + 1].exit_reason = "backtest_end"
                      /\ after.closed_trades[n + 1].exit_price_cents
                           = sell_fill_price(last_bar.close,
                                             get_fee_rate(before.fee_tier, engine.market))
                      /\ after.closed_trades[n + 1].quantity_cents
                           = before.position.quantity_cents
                /\ ~before.position.held => after.closed_trades = before.closed_trades

(* A run has ended with a position open after its last bar                 *)
C24_Witness ==
    /\ engine.phase = "done"
    /\ prev["a"].position.held
    /\ metrics["a"].computed
    /\ bt["a"].closed_trades[Len(bt["a"].closed_trades)].exit_reason = "backtest_end"

(* C25: per bar the engine hands at most one signal to the simulator, the  *)
(* first signal of maximal strength among those generated in that          *)
(* evaluation; if that signal is a sell and no position is held, nothing   *)
(* is handed over, even when a weaker buy was generated with it.           *)
C25_StrongestSignalOnly ==
    \A r \in Runs :
        (engine.phase = "loop" /\ given[r].op = "process_bar") =>
            LET signals == strat.generated[r]
                handed == given[r].signal
                top == CHOOSE k \in 1..Len(signals) :
                          /\ \A j \in 1..Len(signals) :
                                signals[j].strength <= signals[k].strength
                          /\ \A j \in 1..(k - 1) :
                                signals[j].strength < signals[k].strength
            IN  IF signals = <<>> THEN handed = NoSignal
                ELSE IF signals[top].signal.action = "sell" /\ ~prev[r].position.held
                THEN handed = NoSignal
                ELSE /\ handed.action = signals[top].signal.action
                     /\ handed.price_cents = signals[top].signal.price_cents
                     /\ handed.stop_loss_cents = signals[top].signal.stop_loss_cents

(* A stronger sell came with a weaker buy while no position was held, and  *)
(* nothing was handed over                                                 *)
C25_Witness ==
    /\ engine.phase = "loop"
    /\ given["a"].op = "process_bar"
    /\ Len(strat.generated["a"]) = 2
    /\ strat.generated["a"][1].signal.action = "buy"
    /\ strat.generated["a"][2].signal.action = "sell"
    /\ strat.generated["a"][1].strength < strat.generated["a"][2].strength
    /\ ~prev["a"].position.held
    /\ given["a"].signal = NoSignal

---------------------------------------------------------------------------
(* One Turtle instance called directly (strategy/turtle.py)                *)

IsBuy(g) == g.signal.action = "buy"
IsSell(g) == g.signal.action = "sell"
IsEntry(g) == IsBuy(g) /\ g.strength >= 70
IsPyramidAdd(g) == IsBuy(g) /\ g.strength = 50
CountBuys(signals) == Cardinality({k \in 1..Len(signals) : IsBuy(signals[k])})

(* The window of a call                                                    *)
WindowOf(call) == SubSeq(strat.frames[call.symbol], 1, call.len)

(* The frames of the pyramid runs: flat bars up to one short of the        *)
(* warm-up, then MaxTailBars bars that rally by 300 a bar ("rally"), rally *)
(* with a drop below the flat lows on the third bar ("reversal"), or stay  *)
(* flat for two more bars and then rally ("late").                         *)
MaxTailBars == 5
TailShapes == {"rally", "reversal", "late"}
TurtleInstances == {TurtleCrypto, TurtleStocks}

TailClose(shape, k) ==
    IF shape = "reversal" /\ k = 3 THEN 9700
    ELSE IF shape = "late" THEN (IF k <= 2 THEN 10000 ELSE 10000 + 300 * (k - 2))
    ELSE 10000 + 300 * k

TurtleFrame(p, shape) ==
    [i \in 1..(turtle_min_bars(p) - 1 + MaxTailBars) |->
        LET c == IF i < turtle_min_bars(p) THEN 10000
                 ELSE TailClose(shape, i - turtle_min_bars(p) + 1)
        IN  Bar(c, c - 100, c)]

(* turtle_indicators of the windows of these frames, computed once         *)
KnownIndicators ==
    [pf \in {<<p, TurtleFrame(p, shape)>> : p \in TurtleInstances, shape \in TailShapes} |->
        [len \in 0..Len(pf[2]) |-> turtle_indicators(pf[1], SubSeq(pf[2], 1, len))]]

FrameIndicators(p, frame, len) ==
    IF <<p, frame>> \in DOMAIN KnownIndicators THEN KnownIndicators[<<p, frame>>][len]
    ELSE turtle_indicators(p, SubSeq(frame, 1, len))

(* Momentum and Mean-Reversion (strategy/momentum.py, meanrev.py) with     *)
(* their default parameters; rsi() and atr() default to period 14          *)
Momentum == [name |-> "momentum", min_bars |-> 30, rsi_period |-> 14,
             atr_period |-> 14]
MeanReversion == [name |-> "meanrev", min_bars |-> 25, rsi_period |-> 14,
                  atr_period |-> 14, bb_period |-> 20]

(* rsi(close, period) at the last bar is a number when the window has      *)
(* `period` bars and the average loss is not 0, that is when some close    *)
(* lies below the close before it (indicators.py l.24-29)                  *)
rsi_defined(window, period) ==
    /\ period >= 1
    /\ Len(window) >= period
    /\ \E j \in 2..Len(window) : window[j].close < window[j - 1].close

(* macd(close) uses ewm(adjust=False) without min_periods: its histogram   *)
(* is a number at every bar (indicators.py l.43-48)                        *)
macd_defined(window) == Len(window) >= 1

(* bollinger_bands(close, period): rolling mean and standard deviation     *)
(* over `period` bars (indicators.py l.62-65)                              *)
bollinger_defined(window, period) == period >= 2 /\ Len(window) >= period

(* the window without its last bar                                         *)
Earlier(window) == SubSeq(window, 1, Len(window) - 1)

(* momentum.py l.55-56: the NaN guard                                      *)
momentum_indicators_defined(p, df) ==
    /\ rsi_defined(df, p.rsi_period)
    /\ rsi_defined(Earlier(df), p.rsi_period)
    /\ macd_defined(df)
    /\ macd_defined(Earlier(df))
    /\ atr_defined(df, p.atr_period)

(* MomentumStrategy.generate_signals: past the guard the float comparisons *)
(* of RSI and MACD decide, which is left to `choice`                       *)
momentum_generate_signals(self, p, df, choice) ==
    IF Len(df) < p.min_bars THEN StrategyOutcome(<<>>, self, FALSE)
    ELSE IF ~momentum_indicators_defined(p, df) THEN StrategyOutcome(<<>>, self, FALSE)
    ELSE StrategyOutcome(generate_signals(p.name, df, choice), self, FALSE)

(* meanrev.py l.62-63: the NaN guard (prev_close is a price of the frame)  *)
meanrev_indicators_defined(p, df) ==
    /\ rsi_defined(df, p.rsi_period)
    /\ bollinger_defined(df, p.bb_period)
    /\ atr_defined(df, p.atr_period)

(* MeanReversionStrategy.generate_signals                                  *)
meanrev_generate_signals(self, p, df, choice) ==
    IF Len(df) < p.min_bars THEN StrategyOutcome(<<>>, self, FALSE)
    ELSE IF ~meanrev_indicators_defined(p, df) THEN StrategyOutcome(<<>>, self, FALSE)
    ELSE StrategyOutcome(generate_signals(p.name, df, choice), self, FALSE)

(* strategy.generate_signals(df, symbol, market) on the instance, df being *)
(* the first `len` bars of the symbol's frame                              *)
StrategyEvaluate(symbol, len, choice) ==
    LET df == SubSeq(strat.frames[symbol], 1, len)
        out == IF strat.params.name = "momentum"
               THEN momentum_generate_signals(strat.self, strat.params, df, choice)
               ELSE IF strat.params.name = "meanrev"
               THEN meanrev_generate_signals(strat.self, strat.params, df, choice)
               ELSE turtle_decide(strat.self, strat.params,
                                  FrameIndicators(strat.params, strat.frames[symbol], len))
        exit == \E k \in 1..Len(out.signals) : IsSell(out.signals[k])
        entry == \E k \in 1..Len(out.signals) : IsEntry(out.signals[k])
    IN  /\ strat' = [strat EXCEPT
                       !.before = strat.self,
                       !.self = out.self,
                       !.call = StrategyCall(symbol, len),
                       !.out = out,
                       !.calls = @ + 1,
                       !.entry_symbol_before = strat.entry_symbol,
                       !.entry_symbol = IF exit THEN ""
                                        ELSE IF entry THEN symbol ELSE @,
                       !.entry_price = IF exit THEN 0
                                       ELSE IF entry THEN df[len].close ELSE @,
                       !.buys_since_exit = IF exit THEN 0
                                           ELSE @ + CountBuys(out.signals)]
        /\ UNCHANGED <<bt, engine, candles, given, prev, metrics>>
        /\ UNCHANGED <<gateVars, exec>>

(* A Turtle instance answers from the window alone                         *)
TurtleEvaluate(symbol, len) == StrategyEvaluate(symbol, len, "none")

(* One instance, crypto or stocks, asked about two symbols in any order    *)
(* and on any window from the last one too short onwards                   *)
MaxTurtleCalls == 5

InitTurtle ==
    /\ InitGate
    /\ exec = IdleExec
    /\ redis_up = TRUE
    /\ bt = [r \in Runs |-> BacktestBroker(DefaultStartingCashCents, 0, "default")]
    /\ candles = [r \in Runs |-> <<>>]
    /\ given = [r \in Runs |-> NoCall]
    /\ prev = bt
    /\ metrics = [r \in Runs |-> NoMetrics]
    /\ \E p \in TurtleInstances :
         /\ engine = [market |-> "crypto", strategy |-> p.name, i |-> 0,
                      phase |-> "strategy"]
         /\ \E shapes \in [Symbols -> TailShapes] :
              strat = [IdleStrat EXCEPT
                         !.params = p,
                         !.frames = [s \in Symbols |-> TurtleFrame(p, shapes[s])]]

NextTurtle ==
    /\ strat.calls < MaxTurtleCalls
    /\ \E symbol \in Symbols :
         \E len \in (turtle_min_bars(strat.params) - 1)..Len(strat.frames[symbol]) :
            TurtleEvaluate(symbol, len)

SpecTurtle == InitTurtle /\ [][NextTurtle]_vars

(* The breakout scenario of test_turtle.py (_make_breakout_df without its  *)
(* noise): BreakoutAt flat bars at BasePrice, then a rise by BreakoutSize  *)
(* up to the last of the ScenarioBars bars, in equal steps ending at the   *)
(* top ("steps") or starting at the base price ("linspace"); the highs and *)
(* lows lie `spread` above and below the closes.                           *)
ScenarioBars == 80
BreakoutAt == 70
BasePrice == 10000
BreakoutSize == 500
ScenarioShapes == {"steps", "linspace"}
ScenarioSpreads == {0, 20, 50}

BreakoutClose(shape, i) ==
    LET rise == ScenarioBars - BreakoutAt IN
    IF i <= BreakoutAt THEN BasePrice
    ELSE IF shape = "steps" THEN BasePrice + (BreakoutSize * (i - BreakoutAt)) \div rise
    ELSE BasePrice + (BreakoutSize * (i - BreakoutAt - 1)) \div (rise - 1)

BreakoutFrame(shape, spread) ==
    [i \in 1..ScenarioBars |->
        Bar(BreakoutClose(shape, i) + spread, BreakoutClose(shape, i) - spread,
            BreakoutClose(shape, i))]

(* A fresh crypto Turtle instance and the scenario's candles               *)
InitBreakout ==
    /\ InitGate
    /\ exec = IdleExec
    /\ redis_up = TRUE
    /\ bt = [r \in Runs |-> BacktestBroker(DefaultStartingCashCents, 0, "default")]
    /\ engine = [market |-> "crypto", strategy |-> "turtle_crypto", i |-> 0,
                 phase |-> "strategy"]
    /\ candles = [r \in Runs |-> <<>>]
    /\ given = [r \in Runs |-> NoCall]
    /\ prev = bt
    /\ metrics = [r \in Runs |-> NoMetrics]
    /\ \E shape \in ScenarioShapes, spread \in ScenarioSpreads :
         strat = [IdleStrat EXCEPT
                    !.params = TurtleCrypto,
                    !.frames = [s \in Symbols |-> BreakoutFrame(shape, spread)]]

(* The instance is asked bar after bar, on the window up to that bar       *)
NextBreakout ==
    /\ strat.call.len < Len(strat.frames["A"])
    /\ TurtleEvaluate("A", strat.call.len + 1)

SpecBreakout == InitBreakout /\ [][NextBreakout]_vars

(* The close of the last bar of the window exceeds the highest high of the *)
(* `period` bars before it                                                 *)
ExceedsPriorHigh(window, period) ==
    LET upper == donchian_upper_shifted(window, period)
    IN  upper.defined /\ window[Len(window)].close > upper.value

(* The window ends at the first bar whose close exceeds the prior high     *)
FirstBreakout(frame, len, period) ==
    /\ ExceedsPriorHigh(SubSeq(frame, 1, len), period)
    /\ \A m \in 1..(len - 1) : ~ExceedsPriorHigh(SubSeq(frame, 1, m), period)

(* stop = int(close - halves/2 * N) for a distance that leaves it positive *)
IsStopBelow(stop, close, halves, n) ==
    LET scaled_stop == BigAdd(BigMulSmall(n.den, 2 * stop), BigMulSmall(n.num, halves))
        scaled_next == BigAdd(BigMulSmall(n.den, 2 * (stop + 1)), BigMulSmall(n.num, halves))
        scaled_close == BigMulSmall(n.den, 2 * close)
    IN  /\ stop >= 1
        /\ BigLeq(scaled_stop, scaled_close)
        /\ ~BigLeq(scaled_next, scaled_close)

(* The last call was made at the first breakout bar of the scenario and    *)
(* returned exactly one signal, a buy of the given strength with the stop  *)
(* close - 2.5 N                                                           *)
BreakoutAnswered(strength) ==
    LET window == WindowOf(strat.call)
        close == window[Len(window)].close
        n == atr(window, strat.params.atr_period)
    IN  /\ ~strat.out.raised
        /\ Len(strat.out.signals) = 1
        /\ IsBuy(strat.out.signals[1])
        /\ strat.out.signals[1].strength = strength
        /\ strat.out.signals[1].signal.price_cents = close
        /\ n.defined
        /\ IsStopBelow(strat.out.signals[1].signal.stop_loss_cents, close,
                       strat.params.stop_halves, n.value)

AtFirstBreakout ==
    /\ strat.calls > 0
    /\ strat.call.len >= turtle_min_bars(strat.params)
    /\ FirstBreakout(strat.frames[strat.call.symbol], strat.call.len,
                     strat.params.entry_period)

(* C26 as stated: at the first bar whose close exceeds the prior 15-bar    *)
(* high the crypto Turtle answers with exactly one buy of strength 0.7     *)
(* whose stop is close - 2.5 ATR.                                          *)
C26_Original == AtFirstBreakout => BreakoutAnswered(70)

(* C26: in the breakout scenario (flat bars, then a rise) the close of the *)
(* first breakout bar also exceeds the prior 40-bar high, so the crypto    *)
(* Turtle answers with exactly one buy of strength 0.9 (System 2), priced  *)
(* at the close, with stop int(close - 2.5 ATR).                           *)
C26_BreakoutEntry == AtFirstBreakout => BreakoutAnswered(90)

(* The first breakout bar of a scenario has been evaluated and answered    *)
(* with a buy                                                              *)
C26_Witness ==
    /\ AtFirstBreakout
    /\ strat.before = NewTurtle
    /\ ExceedsPriorHigh(WindowOf(strat.call), strat.params.long_entry_period)
    /\ Len(strat.out.signals) = 1
    /\ IsBuy(strat.out.signals[1])
    /\ strat.self.pyramid_count = 1

(* What the last call read off its window                                  *)
CallIndicators == FrameIndicators(strat.params, strat.frames[strat.call.symbol],
                                  strat.call.len)

(* The last call got past the warm-up check and the NaN guard              *)
Evaluated ==
    /\ strat.calls > 0
    /\ ~CallIndicators.short
    /\ CallIndicators.entry_upper.defined /\ CallIndicators.long_upper.defined
    /\ CallIndicators.exit_lower.defined /\ CallIndicators.n.defined

(* The close of the last call's window is at or below the exit channel     *)
AtExit == Evaluated /\ CallIndicators.current_close <= CallIndicators.exit_lower.value

(* The close of the last call's window breaks out of the entry channel or  *)
(* of the long channel                                                     *)
AtBreakout ==
    /\ Evaluated
    /\ LET ind == CallIndicators
       IN  \/ /\ ind.current_close > ind.entry_upper.value
              /\ ind.prev_close <= ind.entry_upper.value
           \/ /\ ind.current_close > ind.long_upper.value
              /\ ind.prev_close <= ind.long_upper.value

(* C27: on one Turtle instance 0 <= pyramid_count <= max_pyramids after    *)
(* any sequence of calls; a call made with pyramid_count = max_pyramids    *)
(* emits no pyramid-add; and at most max_pyramids buy signals are emitted  *)
(* between two exit signals.                                               *)
C27_PyramidCapped ==
    /\ strat.self.pyramid_count >= 0
    /\ strat.self.pyramid_count <= strat.params.max_pyramids
    /\ strat.buys_since_exit <= strat.params.max_pyramids
    /\ (strat.calls > 0 /\ strat.before.pyramid_count = strat.params.max_pyramids) =>
          \A k \in 1..Len(strat.out.signals) : ~IsPyramidAdd(strat.out.signals[k])

(* A call made at the cap, on a window whose close is far enough above the *)
(* last entry for another add, emitted nothing                             *)
C27_Witness ==
    /\ Evaluated
    /\ ~AtExit
    /\ strat.before.pyramid_count = strat.params.max_pyramids
    /\ CallIndicators.current_close >= strat.before.last_entry_price + CallIndicators.step
    /\ strat.out.signals = <<>>
    /\ strat.buys_since_exit = strat.params.max_pyramids

(* C28: a Turtle evaluation with close <= the shifted exit-channel low     *)
(* returns exactly one signal, a sell, and no buy, and leaves              *)
(* pyramid_count and the last entry price at 0 whatever they were.         *)
C28_ExitResetsPyramid ==
    AtExit =>
        /\ ~strat.out.raised
        /\ Len(strat.out.signals) = 1
        /\ IsSell(strat.out.signals[1])
        /\ strat.out.signals[1].signal.price_cents = CallIndicators.current_close
        /\ strat.self = NewTurtle

(* An exit was signalled on an instance that had pyramided                 *)
C28_Witness ==
    /\ AtExit
    /\ strat.before.pyramid_count >= 2
    /\ strat.before.last_entry_price > 0
    /\ strat.self = NewTurtle

---------------------------------------------------------------------------
(* The strategies on short windows and undefined indicators                *)

(* A crypto Turtle constructed with an exit channel longer than its        *)
(* warm-up                                                                 *)
TurtleCryptoWideExit == [TurtleCrypto EXCEPT !.exit_period = 50]
WarmupStrategies == {Momentum, MeanReversion, TurtleCrypto, TurtleCryptoWideExit}

(* Frames of MaxWarmupBars bars: closes that never move, that rise a       *)
(* little every bar, that fall for the first time on the 30th bar, and     *)
(* that go up and down                                                     *)
MaxWarmupBars == 47
WarmupShapes == {"flat", "rising", "first_fall", "choppy"}

WarmupClose(shape, i) ==
    IF shape = "flat" THEN 10000
    ELSE IF shape = "rising" THEN 10000 + 10 * i
    ELSE IF shape = "first_fall" THEN (IF i < 30 THEN 10000 ELSE 9900)
    ELSE 10000 + 100 * (i % 2)

WarmupFrame(shape) ==
    [i \in 1..MaxWarmupBars |->
        Bar(WarmupClose(shape, i) + 50, WarmupClose(shape, i) - 50, WarmupClose(shape, i))]

InitWarmup ==
    /\ InitGate
    /\ exec = IdleExec
    /\ redis_up = TRUE
    /\ bt = [r \in Runs |-> BacktestBroker(DefaultStartingCashCents, 0, "default")]
    /\ candles = [r \in Runs |-> <<>>]
    /\ given = [r \in Runs |-> NoCall]
    /\ prev = bt
    /\ metrics = [r \in Runs |-> NoMetrics]
    /\ \E p \in WarmupStrategies, shape \in WarmupShapes :
         /\ engine = [market |-> "crypto", strategy |-> p.name, i |-> 0,
                      phase |-> "strategy"]
         /\ strat = [IdleStrat EXCEPT
                       !.params = p,
                       !.frames = [s \in Symbols |-> WarmupFrame(shape)]]

(* The strategy is asked bar after bar, on the window up to that bar       *)
NextWarmup ==
    /\ strat.call.len < Len(strat.frames["A"])
    /\ \E choice \in LockstepChoices :
         StrategyEvaluate("A", strat.call.len + 1, choice)

SpecWarmup == InitWarmup /\ [][NextWarmup]_vars

(* The window is shorter than the warm-up of the strategy                  *)
ShorterThanWarmup(p, window) ==
    IF p.name \in {"momentum", "meanrev"} THEN Len(window) < p.min_bars
    ELSE Len(window) < Max(Max(p.entry_period, p.long_entry_period), p.atr_period) + 5

(* An indicator value the strategy reads at the last bar is undefined      *)
IndicatorUndefined(p, window) ==
    IF p.name = "momentum"
    THEN \/ ~rsi_defined(window, p.rsi_period)
         \/ ~rsi_defined(Earlier(window), p.rsi_period)
         \/ ~atr_defined(window, p.atr_period)
    ELSE IF p.name = "meanrev"
    THEN \/ ~rsi_defined(window, p.rsi_period)
         \/ ~bollinger_defined(window, p.bb_period)
         \/ ~atr_defined(window, p.atr_period)
    ELSE \/ ~donchian_upper_shifted(window, p.entry_period).defined
         \/ ~donchian_upper_shifted(window, p.long_entry_period).defined
         \/ ~donchian_lower_shifted(window, p.exit_period).defined
         \/ ~atr_defined(window, p.atr_period)

(* C30: generate_signals of Momentum, Mean-Reversion and Turtle returns an *)
(* empty list and does not raise when the window is shorter than the       *)
(* warm-up (30 bars, 25 bars, max(entry, long-entry, ATR period) + 5 bars) *)
(* or when an indicator value it needs at the last bar is undefined; the   *)
(* instance is left as it was.                                             *)
C30_NoSignalsWithoutIndicators ==
    (/\ strat.calls > 0
     /\ \/ ShorterThanWarmup(strat.params, WindowOf(strat.call))
        \/ IndicatorUndefined(strat.params, WindowOf(strat.call))) =>
        /\ ~strat.out.raised
        /\ strat.out.signals = <<>>
        /\ strat.self = strat.before

(* A Turtle was asked on a window past its warm-up whose exit channel is   *)
(* still undefined, and returned nothing                                   *)
C30_Witness ==
    /\ strat.calls > 0
    /\ strat.params = TurtleCryptoWideExit
    /\ ~ShorterThanWarmup(strat.params, WindowOf(strat.call))
    /\ ~donchian_lower_shifted(WindowOf(strat.call), strat.params.exit_period).defined
    /\ strat.out.signals = <<>>
    /\ ~strat.out.raised

---------------------------------------------------------------------------
(* The paper executor at work: evaluate_signals submits orders             *)
(* (trade_tasks.py l.94-107), check_stop_losses closes positions           *)
(* (l.185-201), the kill switch script closes every position.  Each        *)
(* coroutine advances from one database round trip to the next; the steps  *)
(* of different coroutines interleave.  All of them share the gate of      *)
(* instance 1.                                                             *)
MaxExecCalls == 4

ExecOrders == { ExecOrder("A", "buy", 10000, 15000, 14250),
                ExecOrder("A", "buy", 5000, 15000, 14250),
                ExecOrder("A", "sell", 5000, 15000, 14250) }

(* current_price_cents handed to close_position: a price under the stop    *)
ClosePrices == {14000}

(* The gate as a call would find it now: halted, or before the deadline   *)
(* of a pause                                                              *)
GateBlocked ==
    LET self1 == load_state(mem[1]) IN
    \/ self1.halted
    \/ self1.paused_until # None /\ now < self1.paused_until

StartCall(t, pc, order, pos, snapshot, verdict) ==
    [exec EXCEPT !.calls = @ + 1,
                 !.task[t] = [pc |-> pc, order |-> order, pos |-> pos,
                              snapshot |-> snapshot, verdict |-> verdict,
                              blocked |-> GateBlocked]]

(* submit_order that goes on to execute whatever the verdict               *)
after_verdict_ignored(approved, side) ==
    IF side = "sell" THEN "check" ELSE "fill"

(* submit_order lines 40 and 68: `if not verdict.approved` returns, then   *)
(* `if order.side == "sell"` checks the position before the fill           *)
after_verdict(approved, side) ==
    IF ~approved THEN "idle" ELSE IF side = "sell" THEN "check" ELSE "fill"

(* submit_order lines 39-65: the gate is asked; a rejected order is        *)
(* written to trades as such and the call returns                          *)
SubmitOrder(order) ==
    LET r == evaluate(mem[1], GateOrder(order))
        started == StartCall("submit_order",
                             after_verdict(r.verdict.approved, order.side),
                             order, NoHolding, {},
                             IF r.verdict.approved THEN "approved" ELSE "rejected")
    IN  /\ exec.task["submit_order"].pc = "idle"
        /\ exec.calls < MaxExecCalls
        /\ GateEvaluate(1, GateOrder(order))
        /\ exec' = IF r.verdict.approved THEN started
                   ELSE [started EXCEPT
                           !.trades = Append(@, Trade(order.symbol, order.side,
                                                      "rejected", "signal",
                                                      order.quantity_cents,
                                                      "rejected"))]
        /\ UNCHANGED simVars

(* submit_order lines 68-95: a sell needs a positions row (read without a  *)
(* lock, in a session of its own)                                          *)
SubmitCheck ==
    LET t == exec.task["submit_order"]
        pos == exec.positions[t.order.symbol]
    IN  /\ t.pc = "check"
        /\ exec' = IF pos.held
                   THEN [exec EXCEPT !.task["submit_order"].pc = "fill"]
                   ELSE [exec EXCEPT
                           !.task["submit_order"].pc = "idle",
                           !.trades = Append(@, Trade(t.order.symbol, "sell",
                                                      "rejected", "signal",
                                                      t.order.quantity_cents,
                                                      t.verdict))]
        /\ UNCHANGED <<gateVars, simVars>>

(* submit_order lines 98-138 for a buy: the filled trade and the position  *)
(* are committed together                                                  *)
SubmitFillBuy ==
    LET t == exec.task["submit_order"]
        order == t.order
        pos == exec.positions[order.symbol]
    IN  /\ t.pc = "fill"
        /\ order.side = "buy"
        /\ exec' = [exec EXCEPT
                      !.task["submit_order"].pc = "idle",
                      !.trades = Append(@, Trade(order.symbol, "buy", "filled",
                                                 "signal", order.quantity_cents,
                                                 t.verdict)),
                      !.positions[order.symbol] = open_or_add_position(pos, order),
                      !.opened[order.symbol] = IF pos.held THEN @ ELSE @ + 1]
        /\ UNCHANGED <<gateVars, simVars>>

(* submit_order lines 98-138 for a sell: the filled trade is added, then   *)
(* _close_position reads the row under a lock; with a row its P&L goes to  *)
(* the gate, without one nothing does, and the trade is committed either   *)
(* way                                                                     *)
SubmitFillSell ==
    LET t == exec.task["submit_order"]
        order == t.order
        pos == exec.positions[order.symbol]
        pnl == position_pnl_cents(pos, order.price_cents)
        filled == [exec EXCEPT
                     !.task["submit_order"].pc = "idle",
                     !.trades = Append(@, Trade(order.symbol, "sell", "filled",
                                                "signal", order.quantity_cents,
                                                t.verdict))]
    IN  /\ t.pc = "fill"
        /\ order.side = "sell"
        /\ IF pos.held
           THEN /\ GateRecordTradeResult(1, pnl)
                /\ exec' = [filled EXCEPT
                              !.positions[order.symbol] = NoHolding,
                              !.closed_by = "submit_order",
                              !.results = Append(@, pnl)]
           ELSE /\ exec' = filled
                /\ UNCHANGED gateVars
        /\ UNCHANGED simVars

(* close_position lines 290-296: the row is read without a lock            *)
ClosePositionRead(symbol, current_price_cents) ==
    LET pos == exec.positions[symbol] IN
    /\ exec.task["close_position"].pc = "idle"
    /\ exec.calls < MaxExecCalls
    /\ exec' = StartCall("close_position",
                         IF pos.held THEN "close" ELSE "idle",
                         ExecOrder(symbol, "sell", 1, current_price_cents,
                                   current_price_cents),
                         pos, {}, "none")
    /\ UNCHANGED <<gateVars, simVars>>

(* close_position lines 298-336: P&L of the row that was read, handed to   *)
(* the gate at once; then the filled trade and the delete by symbol are    *)
(* committed                                                               *)
ClosePositionWrite ==
    LET t == exec.task["close_position"]
        pnl_cents == position_pnl_cents(t.pos, t.order.price_cents)
    IN  /\ t.pc = "close"
        /\ GateRecordTradeResult(1, pnl_cents)
        /\ exec' = [exec EXCEPT
                      !.task["close_position"].pc = "idle",
                      !.trades = Append(@, Trade(t.order.symbol, "sell", "filled",
                                                 "stop_loss", t.pos.quantity,
                                                 "none")),
                      !.positions[t.order.symbol] = NoHolding,
                      !.closed_by = IF exec.positions[t.order.symbol].held
                                    THEN "close_position" ELSE @,
                      !.results = Append(@, pnl_cents)]
        /\ UNCHANGED simVars

(* close_all_positions line 342: get_positions                             *)
CloseAllRead ==
    /\ exec.task["close_all_positions"].pc = "idle"
    /\ exec.calls < MaxExecCalls
    /\ LET held == {s \in ExecSymbols : exec.positions[s].held} IN
       exec' = StartCall("close_all_positions",
                         IF held = {} THEN "idle" ELSE "closing",
                         NoExecOrder, NoHolding,
                         {[symbol |-> s, quantity |-> exec.positions[s].quantity]
                            : s \in held},
                         "none")
    /\ UNCHANGED <<gateVars, simVars>>

(* close_all_positions lines 345-379, one turn of the loop: a filled       *)
(* trade and the delete by symbol, no call to the gate                     *)
CloseAllWrite ==
    LET t == exec.task["close_all_positions"] IN
    /\ t.pc = "closing"
    /\ \E p \in t.snapshot :
         exec' = [exec EXCEPT
                    !.task["close_all_positions"].snapshot = @ \ {p},
                    !.task["close_all_positions"].pc =
                        IF t.snapshot = {p} THEN "idle" ELSE "closing",
                    !.trades = Append(@, Trade(p.symbol, "sell", "filled",
                                               "kill_switch", p.quantity, "none")),
                    !.positions[p.symbol] = NoHolding,
                    !.closed_by = IF exec.positions[p.symbol].held
                                  THEN "close_all_positions" ELSE @]
    /\ UNCHANGED <<gateVars, simVars>>

(* Losses already recorded when the executor starts: none, or one less     *)
(* than the circuit breaker needs                                          *)
EarlierLosses == {0, circuit_breaker_consecutive_losses - 1}

(* An empty database; the gate as earlier trading left it, with k losing   *)
(* results of 100 cents recorded in a row                                  *)
InitExecutor ==
    /\ redis_up = TRUE
    /\ now = 0
    /\ \E k \in EarlierLosses :
         /\ mem = [i \in Instances |->
                     [InitFields EXCEPT !.consecutive_losses = k,
                                        !.daily_pnl_cents = -100 * k]]
         /\ store = IF k = 0 THEN NoRecord
                    ELSE [present |-> TRUE, state |-> StateDict(mem[1]),
                          expires_at |-> RedisTtlMinutes]
         /\ run = k
         /\ nRecorded = k
         /\ newLosses = k
         /\ sumSinceReset = -100 * k
         /\ recOnly = TRUE
    /\ last = Call("none", 1)
    /\ latched = [i \in Instances |-> ""]
    /\ phase = ""
    /\ armedAt = None
    /\ InitSimIdle
    /\ exec = IdleExec

NextExecutor ==
    \/ \E order \in ExecOrders : SubmitOrder(order)
    \/ SubmitCheck
    \/ SubmitFillBuy
    \/ SubmitFillSell
    \/ \E symbol \in ExecSymbols, price \in ClosePrices :
         ClosePositionRead(symbol, price)
    \/ ClosePositionWrite
    \/ CloseAllRead
    \/ CloseAllWrite
    \/ KillSwitch(1)
    \/ ResetHalt(1)

SpecExecutor == InitExecutor /\ [][NextExecutor]_vars

(* Filled sell trades of a symbol written by the given entry points        *)
FilledSells(symbol, strategies) ==
    Cardinality({k \in 1..Len(exec.trades) :
                   /\ exec.trades[k].symbol = symbol
                   /\ exec.trades[k].side = "sell"
                   /\ exec.trades[k].status = "filled"
                   /\ exec.trades[k].strategy \in strategies})

(* C31: operations on one symbol are serialized: a signal-driven sell      *)
(* (submit_order) and a stop-loss close (close_position) close a position  *)
(* once between them, so for every symbol the filled sell trades the two   *)
(* have recorded are never more than the positions opened, and             *)
(* record_trade_result has not been called more often than positions were  *)
(* opened.                                                                 *)
C31_PositionClosedOnce ==
    /\ \A s \in ExecSymbols :
         FilledSells(s, {"signal", "stop_loss"}) <= exec.opened[s]
    /\ Len(exec.results) <= exec.opened["A"]

PositionGrows ==
    \E s \in ExecSymbols : exec'.positions[s].quantity > exec.positions[s].quantity

C33_PositionWithinCap ==
    \A s \in ExecSymbols : exec.positions[s].quantity <= max_position_size_cents

(* A step in which submit_order is called                                  *)
SubmitOrderCalled ==
    /\ exec.task["submit_order"].pc = "idle"
    /\ exec'.calls = exec.calls + 1
    /\ exec'.task["submit_order"] # exec.task["submit_order"]

(* A step in which a positions row is removed                              *)
PositionRemoved ==
    \E s \in ExecSymbols : exec.positions[s].held /\ ~exec'.positions[s].held

---------------------------------------------------------------------------
(* A step in which instance 1 records a negative result while its pause    *)
(* deadline lies ahead                                                     *)
LossRecordedWhilePaused ==
    /\ last'.op = "record_trade_result"
    /\ last'.inst = 1
    /\ nRecorded' = nRecorded + 1
    /\ sumSinceReset' < sumSinceReset
    /\ mem[1].paused_until # None
    /\ now < mem[1].paused_until

(* The statement as given: every negative result recorded during a pause   *)
(* sets paused_until to the recording time plus the full pause.            *)
C40_Original ==
    [][LossRecordedWhilePaused =>
         mem'[1].paused_until = now + circuit_breaker_pause_minutes]_vars

(* C40: a negative result recorded while the gate is circuit-paused        *)
(* re-arms the pause, paused_until becoming the recording time plus the    *)
(* full pause duration, when it brings the consecutive-loss counter to the *)
(* threshold or beyond; when a non-negative result or reset_halt has       *)
(* zeroed the counter during the pause, the loss leaves paused_until as it *)
(* was.  Either way the deadline never moves earlier.                      *)
C40_LossAtThresholdRearms ==
    [][LossRecordedWhilePaused =>
         /\ mem'[1].paused_until =
              IF mem[1].consecutive_losses + 1 >= circuit_breaker_consecutive_losses
              THEN now + circuit_breaker_pause_minutes
              ELSE mem[1].paused_until
         /\ mem'[1].paused_until >= mem[1].paused_until]_vars

(* A fourth loss in a row has just been recorded, later than the start of  *)
(* the pause the third one began, and the deadline is a full pause away    *)
C40_Witness ==
    /\ last.op = "record_trade_result"
    /\ newLosses > circuit_breaker_consecutive_losses
    /\ now > 0
    /\ armedAt = now
    /\ mem[1].consecutive_losses > circuit_breaker_consecutive_losses
    /\ mem[1].paused_until = now + circuit_breaker_pause_minutes

---------------------------------------------------------------------------
(* Metrics of a finished run whose equity curve is any sequence of a few   *)
(* levels: a small and a large account balance, each with a lower level.   *)
MaxCurvePoints == 4
EquityLevels == {500, 1000, 9000, 10000}

CurvesOfLength(n) == [1..n -> EquityLevels]

InitDrawdown ==
    /\ InitGate
    /\ exec = IdleExec
    /\ redis_up = TRUE
    /\ \E n \in 1..MaxCurvePoints : \E curve \in CurvesOfLength(n) :
         bt = [r \in Runs |->
                 [BacktestBroker(curve[1], 0, "default") EXCEPT
                    !.equity_curve = curve, !.cash_cents = curve[n]]]
    /\ engine = [market |-> "crypto", strategy |-> "momentum", i |-> 0,
                 phase |-> "metrics"]
    /\ candles = [r \in Runs |-> <<>>]
    /\ given = [r \in Runs |-> NoCall]
    /\ prev = bt
    /\ strat = IdleStrat
    /\ metrics = [r \in Runs |-> NoMetrics]

(* compute_metrics on the finished runs                                    *)
ComputeMetrics ==
    /\ engine.phase = "metrics"
    /\ metrics' = [r \in Runs |-> compute_metrics(bt[r])]
    /\ engine' = [engine EXCEPT !.phase = "done"]
    /\ UNCHANGED <<bt, candles, given, prev, strat>>
    /\ UNCHANGED <<gateVars, exec>>

NextDrawdown == ComputeMetrics

SpecDrawdown == InitDrawdown /\ [][NextDrawdown]_vars

(* The highest equity of points 1..k, and the drop of point k from it      *)
RunningPeak(equity_curve, k) == SetMax({equity_curve[j] : j \in 1..k})
DropAt(equity_curve, k) == RunningPeak(equity_curve, k) - equity_curve[k]

(* C34: the reported max_drawdown_pct is the largest value of              *)
(* (running peak - equity) / running peak over the curve, and the reported *)
(* max_drawdown_cents is the largest peak-to-trough drop over the curve.   *)
C34_MaxDrawdown ==
    \A r \in Runs :
       metrics[r].computed =>
         LET curve == bt[r].equity_curve
             pct == metrics[r].max_drawdown_pct
         IN  /\ \A k \in 1..Len(curve) :
                  DropAt(curve, k) * pct.peak <= pct.drop * RunningPeak(curve, k)
             /\ \E k \in 1..Len(curve) :
                  DropAt(curve, k) * pct.peak = pct.drop * RunningPeak(curve, k)
             /\ metrics[r].max_drawdown_cents =
                  SetMax({DropAt(curve, k) : k \in 1..Len(curve)})

---------------------------------------------------------------------------
(* The highs and the lows of the `period` bars before the last bar of a    *)
(* window                                                                  *)
PriorHighs(window, period) ==
    {window[k].high : k \in (Len(window) - period)..(Len(window) - 1)}
PriorLows(window, period) ==
    {window[k].low : k \in (Len(window) - period)..(Len(window) - 1)}

(* C35: the entry channels and the exit channel that a Turtle evaluation   *)
(* compares the close of bar i with are the highest high, respectively the *)
(* lowest low, of bars i-period..i-1; no value of bar i enters them.       *)
C35_ChannelsExcludeCurrentBar ==
    Evaluated =>
      LET window == WindowOf(strat.call)
          ind == CallIndicators
      IN  /\ \A h \in PriorHighs(window, strat.params.entry_period) :
               h <= ind.entry_upper.value
          /\ ind.entry_upper.value \in PriorHighs(window, strat.params.entry_period)
          /\ \A h \in PriorHighs(window, strat.params.long_entry_period) :
               h <= ind.long_upper.value
          /\ ind.long_upper.value \in PriorHighs(window, strat.params.long_entry_period)
          /\ \A l \in PriorLows(window, strat.params.exit_period) :
               l >= ind.exit_lower.value
          /\ ind.exit_lower.value \in PriorLows(window, strat.params.exit_period)

(* The call was made on a bar whose own high and close lie above the entry *)
(* channel, and it emitted an entry                                        *)
C35_Witness ==
    /\ Evaluated
    /\ LET window == WindowOf(strat.call) IN
       /\ window[Len(window)].high > CallIndicators.entry_upper.value
       /\ window[Len(window)].close > CallIndicators.entry_upper.value
    /\ \E k \in 1..Len(strat.out.signals) : IsEntry(strat.out.signals[k])

---------------------------------------------------------------------------
(* BacktestEngine.run in auto-regime mode (engine.py l.88-143)             *)
RegimeTypes == {"trending", "ranging", "volatile"}

(* detect_regime (strategy/regime.py): VOLATILE on fewer than 30 rows;     *)
(* past that the class follows from the ADX and the Bollinger bandwidth of *)
(* the window, which are not computed here: it may be any of the three     *)
(* (`answer`).                                                             *)
detect_regime(window, answer) ==
    IF Len(window) < 30 THEN "volatile" ELSE answer

(* _strategy_for_regime, l.215-219                                         *)
strategy_for_regime(regime) ==
    IF regime = "trending" THEN "momentum" ELSE "meanrev"

(* A reclassification every 20 bars counted from the first bar of the loop *)
regime_due_since_warmup(i) == (i - MIN_WARMUP_BARS) % 20 = 0

(* run(), l.111: `i % 20 == 0` (self._auto_regime being set)               *)
regime_due(i) == i % 20 = 0

(* The frames of the auto-regime runs: every other bar moves, so that no   *)
(* window is flat; the loop runs over MaxRegimeBars bars.                  *)
MaxRegimeBars == 32
RegimeFrame ==
    [j \in 1..(MIN_WARMUP_BARS + MaxRegimeBars) |->
       IF j % 2 = 0 THEN FlatCandle ELSE Bar(10600, 10000, 10500)]

(* What the strategies answer in these runs: nothing, or a sell            *)
RegimeChoices == {"none", "sell"}

(* The engine holds the strategy object (by name); history: the last       *)
(* regime, the list of classifications made (bar index, rows of the window *)
(* classified, regime) and the strategy that generated the signals of the  *)
(* last bar.                                                               *)
InitRegime ==
    /\ InitGate
    /\ exec = IdleExec
    /\ redis_up = TRUE
    /\ candles = [r \in Runs |-> RegimeFrame]
    /\ bt = [r \in Runs |-> BacktestBroker(DefaultStartingCashCents, 0, "default")]
    /\ engine = [market |-> "crypto", strategy |-> "meanrev", i |-> MIN_WARMUP_BARS,
                 phase |-> "auto", classified |-> <<>>, used |-> ""]
    /\ given = [r \in Runs |-> NoCall]
    /\ prev = bt
    /\ strat = IdleStrat
    /\ metrics = [r \in Runs |-> NoMetrics]

(* One iteration of the loop in auto-regime mode: the regime check of      *)
(* l.111-113, then the rest of the iteration with the strategy in place    *)
AutoRegimeBar(answer, choice) ==
    /\ engine.phase = "auto"
    /\ \A r \in Runs : engine.i < Len(candles[r])
    /\ LET i == engine.i
           window == engine_window(candles["a"], i)
           regime == detect_regime(window, answer)
           strategy == IF regime_due(i) THEN strategy_for_regime(regime)
                       ELSE engine.strategy
           step == [r \in Runs |->
                      engine_bar(bt[r], candles[r], i, choice, engine.market, strategy)]
       IN  /\ regime_due(i) \/ answer = "volatile"
           /\ bt' = [r \in Runs |-> step[r].broker]
           /\ given' = [r \in Runs |->
                          BrokerCall("process_bar", step[r].signal,
                                     candles[r][i + 1], i)]
           /\ strat' = [strat EXCEPT !.generated = [r \in Runs |-> step[r].signals]]
           /\ engine' = [engine EXCEPT
                           !.i = i + 1,
                           !.strategy = strategy,
                           !.used = strategy,
                           !.classified =
                               IF regime_due(i)
                               THEN Append(@, [bar |-> i, rows |-> Len(window),
                                               regime |-> regime])
                               ELSE @]
    /\ prev' = bt
    /\ UNCHANGED <<candles, metrics>>
    /\ UNCHANGED <<gateVars, exec>>

NextRegime == \E answer \in RegimeTypes, choice \in RegimeChoices :
                 AutoRegimeBar(answer, choice)

SpecRegime == InitRegime /\ [][NextRegime]_vars

(* The bars of the loop up to bar i at which a regime is due by the        *)
(* statement: the multiples of 20 from the warm-up on                      *)
DueBars(i) == {j \in MIN_WARMUP_BARS..i : j % 20 = 0}

(* C36: in auto-regime mode the strategy used at bar i is Momentum iff the *)
(* regime classified on candles[0..j] was trending, j being the largest    *)
(* multiple of 20 with 30 <= j <= i; before the first such j (bars 30 to   *)
(* 39) the strategy is Mean-Reversion; the regime is classified at those   *)
(* bars j and at no other bar.                                             *)
C36_RegimeEveryTwentyBars ==
    engine.i > MIN_WARMUP_BARS =>
      LET i == engine.i - 1
          log == engine.classified
      IN  /\ {log[k].bar : k \in 1..Len(log)} = DueBars(i)
          /\ Len(log) = Cardinality(DueBars(i))
          /\ \A k \in 1..Len(log) : log[k].rows = log[k].bar + 1
          /\ IF DueBars(i) = {}
             THEN i \in 30..39 /\ engine.used = "meanrev"
             ELSE \E k \in 1..Len(log) :
                    /\ log[k].bar = SetMax(DueBars(i))
                    /\ engine.used = IF log[k].regime = "trending"
                                     THEN "momentum" ELSE "meanrev"

(* Bar 60 has been processed by Mean-Reversion after a run of Momentum     *)
(* bars: the regime was trending at bar 40 and is no longer at bar 60      *)
C36_Witness ==
    /\ engine.phase = "auto"
    /\ engine.i = 61
    /\ Len(engine.classified) = 2
    /\ engine.classified[1] = [bar |-> 40, rows |-> 41, regime |-> "trending"]
    /\ engine.classified[2].regime = "ranging"
    /\ engine.used = "meanrev"

---------------------------------------------------------------------------
(* Position sizing followed by the gate: a buy signal is sized for a       *)
(* portfolio value (engine.py l.221-250, the same steps as in              *)
(* auto_trader.py l.327-360), turned into an order (trade_tasks.py         *)
(* l.94-105) and evaluated by a gate that holds the same portfolio value.  *)
SizingPortfolios == {1000, 4000, 5000, 100000, DefaultPortfolioValueCents}
SizingPrices == {1000, 10000, 15000, 50000}

(* The stop lies this many percent of the price below the price            *)
StopPercents == {1, 5, 10, 50, 90, 99}

InitSizing ==
    /\ redis_up = TRUE
    /\ store = NoRecord
    /\ now = 0
    /\ \E value_cents \in SizingPortfolios :
         mem = [i \in Instances |-> set_portfolio_value(InitFields, value_cents)]
    /\ last = Call("none", 1)
    /\ latched = [i \in Instances |-> ""]
    /\ phase = ""
    /\ run = 0
    /\ recOnly = TRUE
    /\ nRecorded = 0
    /\ armedAt = None
    /\ newLosses = 0
    /\ sumSinceReset = 0
    /\ InitSimIdle
    /\ exec = IdleExec

(* _apply_position_sizing on a buy signal, then evaluate on the order      *)
SizeAndEvaluate(price_cents, percent) ==
    LET stop == price_cents - (price_cents * percent) \div 100
        raw == buy_signal("momentum", price_cents, stop, 100)
        sized == apply_position_sizing(raw, price_cents \div 20,
                                       mem[1].portfolio_value_cents)
        order == MkOrder(sized.quantity_cents, sized.price_cents,
                         sized.stop_loss_cents)
    IN  /\ last.op = "none"
        /\ GateEvaluate(1, order)
        /\ given' = [given EXCEPT !["a"] =
                       BrokerCall("sized", sized, Bar(0, 0, 0), 0)]
        /\ UNCHANGED <<bt, engine, candles, prev, strat, metrics, exec>>

NextSizing == \E price_cents \in SizingPrices, percent \in StopPercents :
                 SizeAndEvaluate(price_cents, percent)

SpecSizing == InitSizing /\ [][NextSizing]_vars

(* C37: a buy signal that went through position sizing, 0 < stop < price,  *)
(* satisfies the rules of the gate for the same portfolio value:           *)
(* 100 <= quantity <= max_position_size_cents and                          *)
(* int(quantity * |price - stop| / price) <= 2% of the portfolio, so the   *)
(* gate, being neither halted nor paused, approves it.                     *)
C37_SizedOrderPassesGate ==
    given["a"].op = "sized" =>
      LET sized == given["a"].signal
          order == MkOrder(sized.quantity_cents, sized.price_cents,
                           sized.stop_loss_cents)
      IN  (0 < order.stop_loss_cents /\ order.stop_loss_cents < order.price_cents) =>
            /\ 100 <= order.quantity_cents
            /\ order.quantity_cents <= max_position_size_cents
            /\ order_risk_cents(order) <= max_risk_cents(mem[1])
            /\ last.verdict.approved

---------------------------------------------------------------------------
(* A Turtle instance inside the loop of the simulator: every bar the       *)
(* strategy is asked on the window up to that bar (engine.py l.115-116),   *)
(* the strongest signal is kept and sized (l.118-132) and the broker       *)
(* processes the bar, its stop-loss check first (l.134-143, broker.py      *)
(* l.111-120).                                                             *)

(* a loop that starts the strategy afresh once the broker has stopped the  *)
(* position out                                                            *)
strategy_after_bar_reset(self, stopped) == IF stopped THEN NewTurtle ELSE self

(* run(), l.115-143: nothing in the loop or in the broker writes to the    *)
(* strategy object; its state after the bar is what generate_signals left  *)
strategy_after_bar(self, stopped) == self

(* The frames: flat bars up to one short of the warm-up, then closes that  *)
(* rise by 300 a bar, fall to 9000 on bar exit_at of the tail and rise     *)
(* from 14300 after it.  Highs are the closes, lows lie 100 under them,    *)
(* but bar wick_at of the tail (if any) dips to 9950 and closes high.      *)
MaxStopOutBars == 9
WickBars == {0, 2, 3, 4}
ExitBars == {6, 7}

StopOutClose(exit_at, k) ==
    IF k < exit_at THEN 10000 + 300 * k
    ELSE IF k = exit_at THEN 9000
    ELSE 14000 + 300 * (k - exit_at)

StopOutFrame(wick_at, exit_at) ==
    [i \in 1..(turtle_min_bars(TurtleCrypto) - 1 + MaxStopOutBars) |->
        LET k == i - (turtle_min_bars(TurtleCrypto) - 1)
            c == IF k < 1 THEN 10000 ELSE StopOutClose(exit_at, k)
        IN  Bar(c, IF k >= 1 /\ k = wick_at THEN 9950 ELSE c - 100, c)]

StopOutFrames == {StopOutFrame(w, e) : w \in WickBars, e \in ExitBars}

(* turtle_indicators of the windows of these frames, computed once         *)
StopOutIndicators ==
    [frame \in StopOutFrames |->
        [len \in (turtle_min_bars(TurtleCrypto) - 1)..Len(frame) |->
            turtle_indicators(TurtleCrypto, SubSeq(frame, 1, len))]]

StopOutCash == {DefaultStartingCashCents, 7000}

(* History kept in engine: stopped_out, the broker has closed the position *)
(* on its stop and the strategy has emitted no exit sell on that bar or    *)
(* since; refused, an evaluation made in that state saw a breakout.        *)
InitStopOut ==
    /\ InitGate
    /\ exec = IdleExec
    /\ redis_up = TRUE
    /\ \E frame \in StopOutFrames : candles = [r \in Runs |-> frame]
    /\ \E cash \in StopOutCash :
         bt = [r \in Runs |-> BacktestBroker(cash, 0, "default")]
    /\ engine = [market |-> "crypto", strategy |-> TurtleCrypto.name,
                 i |-> turtle_min_bars(TurtleCrypto) - 2,
                 phase |-> "turtle_loop", stopped_out |-> FALSE,
                 refused |-> FALSE]
    /\ given = [r \in Runs |-> NoCall]
    /\ prev = bt
    /\ strat = [IdleStrat EXCEPT !.params = TurtleCrypto,
                                 !.frames = [s \in Symbols |-> candles["a"]]]
    /\ metrics = [r \in Runs |-> NoMetrics]

(* One iteration of the loop on bar engine.i (0-based)                     *)
TurtleBar ==
    /\ engine.phase = "turtle_loop"
    /\ engine.i < Len(candles["a"])
    /\ LET i == engine.i
           ind == StopOutIndicators[candles["a"]][i + 1]
           out == turtle_decide(strat.self, strat.params, ind)
           exit == \E k \in 1..Len(out.signals) : IsSell(out.signals[k])
           entry == \E k \in 1..Len(out.signals) : IsEntry(out.signals[k])
           breakout == /\ ~ind.short
                       /\ ind.current_close > ind.entry_upper.value
                       /\ ind.prev_close <= ind.entry_upper.value
           bar == candles["a"][i + 1]
           stopped == /\ bt["a"].position.held
                      /\ bar.low <= bt["a"].position.stop_loss_cents
           sized == [r \in Runs |->
                       LET kept == select_signal(out.signals, bt[r].position.held)
                       IN  IF kept.action = "buy"
                           THEN apply_position_sizing(kept, kept.price_cents \div 20,
                                                      get_equity_cents(bt[r], bar.close))
                           ELSE kept]
       IN  /\ bt' = [r \in Runs |->
                       process_bar(bt[r], sized[r], bar, i, engine.market)]
           /\ given' = [r \in Runs |-> BrokerCall("process_bar", sized[r], bar, i)]
           /\ strat' = [strat EXCEPT
                          !.before = strat.self,
                          !.self = strategy_after_bar(out.self, stopped),
                          !.call = StrategyCall("A", i + 1),
                          !.out = out,
                          !.calls = @ + 1,
                          !.generated = [r \in Runs |-> out.signals]]
           /\ engine' = [engine EXCEPT
                           !.i = i + 1,
                           !.stopped_out = IF exit THEN FALSE
                                           ELSE IF stopped THEN TRUE ELSE @,
                           !.refused = IF exit THEN FALSE
                                       ELSE IF engine.stopped_out /\ breakout
                                       THEN TRUE ELSE @]
    /\ prev' = bt
    /\ UNCHANGED <<candles, metrics>>
    /\ UNCHANGED <<gateVars, exec>>

NextStopOut == TurtleBar

SpecStopOut == InitStopOut /\ [][NextStopOut]_vars

====
